---- MODULE Spec2Model ----
(***************************************************************************)
(* A model of the ai2go terminal agent: the history's API-safe view, the   *)
(* root agent loop (ProcessConversation), the edit/checkpoint engine, the  *)
(* subagent factory and the subagent loop (Agent.Run).                     *)
(*                                                                         *)
(* Each component has its own specification over the shared variables; a   *)
(* component that a specification does not exercise stays in its "off"     *)
(* state, in which none of its actions is enabled.                         *)
(***************************************************************************)
EXTENDS Integers, Sequences, FiniteSets, TLC

VARIABLES
    \* ---- chat.History and the root loop (internal/chat) ----
    history,      \* History.messages
    lastView,     \* the last result of GetMessagesForAPI: [clean, changed, of]
    pc,           \* position of main / ProcessConversation
    paused,       \* PauseController.paused
    canceled,     \* runCtx.Err() != nil
    calls,        \* assistantMsg.ToolCalls of the current iteration (their IDs)
    k,            \* index of the tool call the inner loop is at
    sent,         \* the message sequence of the last completion request
    iter,         \* completions made by the current call of ProcessConversation
    completions,  \* completions made since start (caps the model)
    turns,        \* user turns so far (caps the model)
    nextID,       \* the next tool-call ID the completion service hands out
    exitReason,   \* why the last call of ProcessConversation returned
    \* ---- the edit/checkpoint engine (internal/tools) ----
    wt,           \* the worktree: file -> content, or Absent
    ignored,      \* the files the worktree's .gitignore excludes
    index,        \* the git index of the per-worktree repository
    commits,      \* the checkpoints, oldest first; the last one is HEAD
    edPc,         \* "ready" while the engine is exercised, "off" otherwise
    edLast,       \* the last engine call: its name, its error, the worktree before a failed apply
    \* ---- the subagent factory (internal/subagent) ----
    facPc,        \* "on" while the factory is exercised, "off" otherwise
    facExperimental, \* cfg.SubagentExperimental
    facCanceled,  \* ctx.Err() != nil for the context given to RunFactory
    batches,      \* the calls of runFactoryWithDepth, in order of their start
    workers,      \* the worker goroutines, in order of their spawning
    facLast,      \* the last subagent_factory tool call made by an agent
    \* ---- the subagent loop Agent.Run (internal/subagent) ----
    agPc,         \* position of Agent.Run
    agI,          \* the loop counter i
    agHasDeadline, \* ctx.Deadline() reports a deadline
    agRemaining,  \* time.Until(deadline) in seconds
    agToolsLeft,  \* tool calls of resp.ToolCalls not yet executed
    agProgress,   \* progress.Len() > 0
    agCompletions, \* calls of RunCompletionOnce with the tool list
    agFinalCompletions, \* calls of RunCompletionOnce without tools
    agCheck,      \* the last shouldFinalizeNow decision and the time it saw
    agFinal,      \* what forceFinalizeNoTools computed
    agResult,     \* what Agent.Run returned
    \* ---- one record per further component ----
    cls,          \* the classification of one finished task (runFactoryWithDepth)
    td,           \* the tool-call loop of one iteration of an agent loop
    agCanceled,   \* ctx.Err() == context.Canceled for the context of Agent.Run
    pz,           \* one call of PauseController.WaitIfPaused by the root loop
    rt,           \* one call of Client.doWithRetry
    st,           \* one call of Client.handleStreamingResponse
    ms,           \* the Manager's task store, its scrub ticker and its readers
    cc,           \* the engine calls of two concurrent subagent tasks on one worktree
    xg,           \* the experimental flag, the tools last offered and the last subagent_factory call
    sc,           \* a batch of three tasks whose model answers are fixed: options, each task's run and result, the report
    fo,           \* the options of one subagent_factory call: as written in the arguments, as parsed, as used
    sp,           \* one call of splitTasks: the mega prompt and the split options, the pieces and the tasks returned
    pf,           \* one call of patch_file: the lines of the file at the start, the patch, the lines written
    sg,           \* one call of KillProcessTreeWithTimeout and the process table it acts on
    rv,           \* one call of runFactoryWithDepth seen from outside: its input, what it created, what it returned
    ud,           \* apply_unified_diff_patch calls of the root loop: the calls made and the tool messages appended for them
    ti            \* the clock, the started batches and the manager's task map keyed by TaskID

rootVars == <<history, lastView, pc, paused, canceled, calls, k, sent, iter,
              completions, turns, nextID, exitReason>>

edVars == <<wt, ignored, index, commits, edPc, edLast>>

facVars == <<facPc, facExperimental, facCanceled, batches, workers, facLast>>

agVars == <<agPc, agI, agHasDeadline, agRemaining, agToolsLeft, agProgress,
            agCompletions, agFinalCompletions, agCheck, agFinal, agResult>>

auxVars == <<cls, td, agCanceled, pz, rt, st, ms, cc, xg, sc, fo, sp, pf, sg, rv, ud, ti>>

vars == <<rootVars, edVars, facVars, agVars, auxVars>>

\* ------------------------------------------------------------------ bounds
MaxLen == 3          \* longest stored history the view is applied to
MaxCalls == 2        \* most tool calls in one assistant message
MaxTurns == 2        \* user turns
MaxCompletions == 3  \* completions over all turns (SpecRoot)
LongCap == 17        \* completions of the single long turn (SpecRootLong)
MaxCommits == 2      \* checkpoints kept in the model of the repository
MaxBatches == 3      \* calls of runFactoryWithDepth
MaxTasks == 2        \* tasks one mega prompt splits into
MaxWorkers == 3      \* worker goroutines spawned over all batches
MaxRemaining == 22   \* seconds until the deadline when Agent.Run starts
MaxToolCalls == 2    \* tool calls in one subagent completion
MaxOut == 3          \* characters in an agent's output
MaxPolls == 3        \* 200 ms timers that expire during one WaitIfPaused
MaxChunks == 2       \* stream chunks that carry tool-call fragments
MaxNow == 60         \* seconds of the Manager's life that are followed
MaxStarted == 3      \* batches started through subagent_factory calls
MaxSegments == 4     \* segments a mega prompt is put together from
MaxLines == 3        \* lines of a file given to patch_file
MaxOps == 2          \* operation lines of a patch
MaxProcs == 3        \* processes of the tree a signal is sent to
MaxChecks == 2       \* 100 ms polls of the process tree before the deadline
MaxDiffCalls == 2    \* apply_unified_diff_patch calls of one conversation
MaxTicks == 2        \* advances of the clock
MaxStarts == 2       \* batches that read the clock for their batchID

\* -------------------------------------- worktree values and the off states
Files == {"main.go", "out.txt"}

Absent == "absent"

\* "A": sound content; "X": content that does not compile.
Contents == {"A", "X"}

NoFiles == [f \in Files |-> Absent]
\* The worktrees of the model: main.go always exists, out.txt may not.
Worktrees == {w \in [Files -> Contents \cup {Absent}] : w["main.go"] # Absent}

EdOff ==
    /\ wt = NoFiles /\ ignored = {} /\ index = NoFiles /\ commits = <<>>
    /\ edPc = "off" /\ edLast = [op |-> "none", err |-> "none", before |-> NoFiles, fault |-> "none", ids |-> <<>>]

NoFactoryCall == [depth |-> 0, result |-> "none"]

FacOff ==
    /\ facPc = "off" /\ facExperimental = FALSE /\ facCanceled = FALSE
    /\ batches = <<>> /\ workers = <<>> /\ facLast = NoFactoryCall

NoCheck == [made |-> FALSE, rem |-> 0, fin |-> FALSE]

NoFinal == [taken |-> FALSE, rem |-> 0, budget |-> 0, limit |-> 0]

NoResult == [out |-> "none", err |-> "none"]

AgOff ==
    /\ agPc = "off" /\ agI = 0 /\ agHasDeadline = FALSE /\ agRemaining = 0
    /\ agToolsLeft = 0 /\ agProgress = FALSE /\ agCompletions = 0
    /\ agFinalCompletions = 0 /\ agCheck = NoCheck /\ agFinal = NoFinal
    /\ agResult = NoResult

\* What the root-loop and view specifications leave untouched.
ClsOff == cls = [pc |-> "off"]

TdOff == td = [pc |-> "off"]

AcOff == agCanceled = FALSE

PzOff == pz = [pc |-> "off"]

RtOff == rt = [pc |-> "off"]

StOff == st = [pc |-> "off"]

MsOff == ms = [pc |-> "off"]

CcOff == cc = [pc |-> "off"]

XgOff == xg = [pc |-> "off"]

ScOff == sc = [pc |-> "off"]

FoOff == fo = [pc |-> "off"]

SpOff == sp = [pc |-> "off"]

PfOff == pf = [pc |-> "off"]

SgOff == sg = [pc |-> "off"]

RvOff == rv = [pc |-> "off"]

UdOff == ud = [pc |-> "off"]

TiOff == ti = [pc |-> "off"]

AuxOff == ClsOff /\ TdOff /\ AcOff /\ PzOff /\ RtOff /\ StOff /\ MsOff /\ CcOff /\ XgOff /\ ScOff /\ FoOff /\ SpOff /\ PfOff /\ SgOff /\ RvOff /\ UdOff /\ TiOff

OthersOffRoot == EdOff /\ FacOff /\ AgOff /\ AuxOff

RootOnly == UNCHANGED <<edVars, facVars, agVars, auxVars>>

\* ------------------------------------------------------------- api.Message
EmptyID == 0         \* the empty string as ToolCallID / ToolCall.ID

Range(s) == {s[i] : i \in DOMAIN s}

Msg(role, id, tcs) == [role |-> role, ToolCallID |-> id, ToolCalls |-> tcs]

SystemMsg == Msg("system", EmptyID, <<>>)
UserMsg == Msg("user", EmptyID, <<>>)
AssistantMsg(tcs) == Msg("assistant", EmptyID, tcs)
ToolMsg(id) == Msg("tool", id, <<>>)

\* ------------------------------------------------------------ chat.History
NewHistory == <<SystemMsg>>

AddUserMessage(h) == Append(h, UserMsg)

AddAssistantMessage(h, m) == Append(h, m)

AddToolResponse(h, toolCallID) == Append(h, ToolMsg(toolCallID))

LoadMessages(h, messages) == IF Len(messages) = 0 THEN NewHistory ELSE messages

\* The tool-call IDs an assistant message adds to pendingToolCalls.
PendingOf(m) == {id \in Range(m.ToolCalls) : id # EmptyID}

AdmitToolAlways(m, pending) == TRUE

\* A tool message is admitted iff its ID is non-empty and pending.
AdmitTool(m, pending) == m.ToolCallID # EmptyID /\ m.ToolCallID \in pending

\* clean = append(clean, msg)
Keep(clean, m) == Append(clean, m)

RECURSIVE ViewWalk(_, _, _, _, _)
ViewWalk(msgs, i, clean, pending, changed) ==
    IF i > Len(msgs) THEN [clean |-> clean, changed |-> changed]
    ELSE LET m == msgs[i] IN
         CASE m.role = "assistant" ->
                ViewWalk(msgs, i + 1, Keep(clean, m), pending \cup PendingOf(m), changed)
           [] m.role = "tool" ->
                IF AdmitTool(m, pending)
                THEN ViewWalk(msgs, i + 1, Keep(clean, m), pending \ {m.ToolCallID}, changed)
                ELSE ViewWalk(msgs, i + 1, clean, pending, TRUE)
           [] OTHER ->
                ViewWalk(msgs, i + 1, Keep(clean, m), pending, changed)

GetMessagesForAPI(h) ==
    IF Len(h) = 0 THEN [clean |-> h, changed |-> FALSE]
    ELSE ViewWalk(h, 1, <<>>, {}, FALSE)

NoView == [clean |-> <<>>, changed |-> FALSE, of |-> <<>>, made |-> FALSE]

\* ------------------------------------------- the view on stored histories
IDs == {EmptyID, 1, 2}

CallLists == {<<>>} \cup {<<a>> : a \in IDs} \cup {<<a, b>> : a \in IDs, b \in IDs}

Messages ==
    {SystemMsg, UserMsg} \cup {ToolMsg(id) : id \in IDs}
        \cup {AssistantMsg(tcs) : tcs \in CallLists}

Histories == UNION {[1..n -> Messages] : n \in 0..MaxLen}

RootOff ==
    /\ pc = "off" /\ paused = FALSE /\ canceled = FALSE /\ calls = <<>> /\ k = 0
    /\ sent = <<>> /\ iter = 0 /\ completions = 0 /\ turns = 0 /\ nextID = 1
    /\ exitReason = "none"

\* The conversation components when a specification does not exercise them.
ChatOff == history = <<>> /\ lastView = NoView /\ RootOff

InitView ==
    /\ OthersOffRoot
    /\ history \in Histories
    /\ lastView = NoView
    /\ RootOff

\* A caller asks for the API-safe view of the stored history.
CallGetMessagesForAPI ==
    /\ RootOnly
    /\ pc = "off"
    /\ lastView.made = FALSE
    /\ LET v == GetMessagesForAPI(history) IN
       lastView' = [clean |-> v.clean, changed |-> v.changed, of |-> history, made |-> TRUE]
    /\ UNCHANGED <<history, pc, paused, canceled, calls, k, sent, iter, completions,
                   turns, nextID, exitReason>>

\* processor.go:41-44: a repaired view replaces the history.
RepairHistory ==
    /\ RootOnly
    /\ pc = "off"
    /\ lastView.made /\ lastView.changed /\ lastView.of = history
    /\ history' = LoadMessages(history, lastView.clean)
    /\ lastView' = NoView
    /\ UNCHANGED <<pc, paused, canceled, calls, k, sent, iter, completions, turns,
                   nextID, exitReason>>

NextView == CallGetMessagesForAPI \/ RepairHistory

SpecView == InitView /\ [][NextView]_vars

\* ------------------------------------------------------- the root agent loop
Active == pc \notin {"off", "idle"}

\* IDs the completion service gives the n tool calls of one assistant message.
FreshCalls(n) == [j \in 1..n |-> nextID + j - 1]

Return(reason) ==
    /\ pc' = "idle"
    /\ exitReason' = reason

InitRoot ==
    /\ OthersOffRoot
    /\ history = NewHistory
    /\ lastView = NoView
    /\ pc = "idle" /\ paused = FALSE /\ canceled = FALSE /\ calls = <<>> /\ k = 0
    /\ sent = <<>> /\ iter = 0 /\ completions = 0 /\ turns = 0 /\ nextID = 1
    /\ exitReason = "none"

\* main.go:154-177: the user's message is appended and a run starts with a
\* fresh context and a fresh pause controller.
UserTurn ==
    /\ RootOnly
    /\ pc = "idle"
    /\ turns < MaxTurns
    /\ history' = AddUserMessage(history)
    /\ pc' = "wait_top"
    /\ paused' = FALSE /\ canceled' = FALSE
    /\ iter' = 0 /\ turns' = turns + 1
    /\ calls' = <<>> /\ k' = 0
    /\ exitReason' = "none"
    /\ UNCHANGED <<lastView, sent, completions, nextID>>

\* main.go:161-175: Ctrl+Z toggles the pause flag while the run lasts.
TogglePause ==
    /\ RootOnly
    /\ Active
    /\ paused' = ~paused
    /\ UNCHANGED <<history, lastView, pc, canceled, calls, k, sent, iter, completions,
                   turns, nextID, exitReason>>

\* main.go:155: Ctrl+C cancels runCtx.
Cancel ==
    /\ RootOnly
    /\ Active
    /\ ~canceled
    /\ canceled' = TRUE
    /\ UNCHANGED <<history, lastView, pc, paused, calls, k, sent, iter, completions,
                   turns, nextID, exitReason>>

\* processor.go:26-33: WaitIfPaused at the turn boundary. While paused and not
\* canceled the loop polls (no step).
WaitTop ==
    /\ RootOnly
    /\ pc = "wait_top"
    /\ \/ /\ paused /\ canceled
          /\ Return("canceled")
       \/ /\ ~paused
          /\ pc' = "check_ctx"
          /\ UNCHANGED exitReason
    /\ UNCHANGED <<history, lastView, paused, canceled, calls, k, sent, iter,
                   completions, turns, nextID>>

\* Whether the loop goes round again after n completions: `for {`.
LoopContinuesBounded(n) == n < 16

LoopContinues(n) == TRUE

\* processor.go:35-46: the context check, the API-safe view, the request.
CheckCtx ==
    /\ RootOnly
    /\ pc = "check_ctx"
    /\ IF canceled
       THEN /\ Return("stopped")
            /\ UNCHANGED <<history, lastView, sent>>
       ELSE IF ~LoopContinues(iter)
       THEN /\ Return("budget")
            /\ UNCHANGED <<history, lastView, sent>>
       ELSE LET v == GetMessagesForAPI(history) IN
            /\ lastView' = [clean |-> v.clean, changed |-> v.changed,
                            of |-> history, made |-> TRUE]
            /\ history' = IF v.changed THEN LoadMessages(history, v.clean) ELSE history
            /\ sent' = v.clean
            /\ pc' = "completing"
            /\ UNCHANGED exitReason
    /\ UNCHANGED <<paused, canceled, calls, k, iter, completions, turns, nextID>>

\* processor.go:47-54: RunCompletion fails (transport, API status, or the
\* context was canceled).
CompletionErr ==
    /\ RootOnly
    /\ pc = "completing"
    /\ Return(IF canceled THEN "canceled" ELSE "completion_error")
    /\ UNCHANGED <<history, lastView, paused, canceled, calls, k, sent, iter,
                   completions, turns, nextID>>

\* processor.go:56-66: the assistant message, with n tool calls, is appended.
CompletionOK(n, cap) ==
    /\ RootOnly
    /\ pc = "completing"
    /\ ~canceled
    /\ completions < cap
    /\ history' = AddAssistantMessage(history, AssistantMsg(FreshCalls(n)))
    /\ nextID' = nextID + n
    /\ iter' = iter + 1
    /\ completions' = completions + 1
    /\ IF n = 0
       THEN /\ Return("no_tool_calls")
            /\ calls' = <<>> /\ k' = 0
       ELSE /\ pc' = "wait_tool"
            /\ calls' = FreshCalls(n) /\ k' = 1
            /\ UNCHANGED exitReason
    /\ UNCHANGED <<lastView, paused, canceled, sent, turns>>

\* processor.go:70-77: WaitIfPaused before each tool call.
WaitTool ==
    /\ RootOnly
    /\ pc = "wait_tool"
    /\ \/ /\ paused /\ canceled
          /\ Return("canceled")
       \/ /\ ~paused
          /\ pc' = "exec_tool"
          /\ UNCHANGED exitReason
    /\ UNCHANGED <<history, lastView, paused, canceled, calls, k, sent, iter,
                   completions, turns, nextID>>

\* processor.go:79-466: the tool runs (whatever its outcome, its text becomes
\* the tool response) and the response is appended.
ExecTool ==
    /\ RootOnly
    /\ pc = "exec_tool"
    /\ history' = AddToolResponse(history, calls[k])
    /\ IF k = Len(calls)
       THEN pc' = "wait_top" /\ k' = 0
       ELSE pc' = "wait_tool" /\ k' = k + 1
    /\ UNCHANGED <<lastView, paused, canceled, calls, sent, iter, completions, turns,
                   nextID, exitReason>>

NextRoot ==
    \/ UserTurn
    \/ TogglePause
    \/ Cancel
    \/ WaitTop
    \/ CheckCtx
    \/ CompletionErr
    \/ \E n \in 0..MaxCalls : CompletionOK(n, MaxCompletions)
    \/ WaitTool
    \/ ExecTool

SpecRoot == InitRoot /\ [][NextRoot]_vars

\* One turn in which the service answers every completion with one tool call
\* and the context is never canceled.
InitRootLong ==
    /\ OthersOffRoot
    /\ history = AddUserMessage(NewHistory)
    /\ lastView = NoView
    /\ pc = "wait_top" /\ paused = FALSE /\ canceled = FALSE /\ calls = <<>> /\ k = 0
    /\ sent = <<>> /\ iter = 0 /\ completions = 0 /\ turns = 1 /\ nextID = 1
    /\ exitReason = "none"

NextRootLong ==
    \/ TogglePause
    \/ WaitTop
    \/ CheckCtx
    \/ CompletionOK(1, LongCap)
    \/ WaitTool
    \/ ExecTool

SpecRootLong == InitRootLong /\ [][NextRootLong]_vars

\* ----------------------------------------------- the edit/checkpoint engine
\* The repository and worktree as one value the git commands transform.
Repo == [wt |-> wt, index |-> index, commits |-> commits]

HeadTree(r) == IF Len(r.commits) = 0 THEN NoFiles ELSE r.commits[Len(r.commits)].tree

\* git add -A: stages every path that is not ignored.
GitAddAll(r) ==
    [r EXCEPT !.index = [f \in Files |-> IF f \in ignored THEN r.index[f] ELSE r.wt[f]]]

\* git add -- f fails on an ignored path and on a path that matches nothing.
GitAddFileFails(r, f) ==
    f \in ignored \/ (r.wt[f] = Absent /\ r.index[f] = Absent)

GitAddFile(r, f) == [r EXCEPT !.index[f] = r.wt[f]]

\* git commit --allow-empty -m msg
GitCommit(r, msg) ==
    [r EXCEPT !.commits = Append(r.commits, [tree |-> r.index, msg |-> msg])]

\* git reset --hard <commit>, the commit given with its ancestry chain (oldest
\* first): tracked paths take the commit's content, the index becomes the
\* commit's tree, untracked paths are left alone, HEAD is the commit.
GitResetHardTo(r, chain) ==
    LET tree == chain[Len(chain)].tree IN
    [wt |-> [f \in Files |->
                IF r.index[f] # Absent \/ HeadTree(r)[f] # Absent \/ tree[f] # Absent
                THEN tree[f] ELSE r.wt[f]],
     index |-> tree,
     commits |-> chain]

\* git reset --hard <commit n> of the current history.
GitResetHard(r, n) == GitResetHardTo(r, SubSeq(r.commits, 1, n))

GitCleanNothing(r) == r

\* git clean -fd: removes untracked paths, but not ignored ones (no -x).
GitClean(r) ==
    [r EXCEPT !.wt = [f \in Files |->
                         IF r.index[f] = Absent /\ f \notin ignored
                         THEN Absent ELSE r.wt[f]]]

\* A unified diff: for each file, the content its hunks expect and the
\* content they leave (Absent: the file is created, or deleted); old = new
\* where the diff does not touch the file.
Stale == "stale"

\* The diffs written against worktree w that change it to new; a stale diff
\* expects content the touched files do not have.
PatchOf(w, new, stale) ==
    [f \in Files |->
        IF w[f] = new[f] THEN [old |-> w[f], new |-> w[f]]
        ELSE [old |-> IF stale THEN Stale ELSE w[f], new |-> new[f]]]

Touches(p, f) == p[f].old # p[f].new

\* git apply: all hunks apply to the worktree, or none does.
GitApplyFails(r, p) == \E f \in Files : Touches(p, f) /\ r.wt[f] # p[f].old

GitApply(r, p) ==
    [r EXCEPT !.wt = [f \in Files |-> IF Touches(p, f) THEN p[f].new ELSE r.wt[f]]]

VerifyModes == {"none", "syntax", "tests", "bogus"}

\* runVerification: go test ./... -run=^$ (syntax) or go test ./... (tests).
VerificationFails(r, mode) ==
    CASE mode = "none" -> FALSE
      [] mode = "syntax" -> \E f \in Files : r.wt[f] = "X"
      [] mode = "tests" -> \E f \in Files : r.wt[f] = "X"
      [] OTHER -> TRUE

\* The git invocation of one engine call that the environment fails, if any:
\* the commit of the pre or post checkpoint, the rev-parse that follows the
\* post checkpoint's commit, or the reset or the clean of a rollback.
Faults == {"none", "pre_commit", "post_commit", "post_rev_parse", "reset", "clean"}

\* CreateCheckpoint: [r, err, head]; head is the position of the new commit.
\* gitFails names the invocation that fails: "commit", "rev-parse" or "none".
CreateCheckpoint(r, filePath, message, gitFails) ==
    LET addFails == IF filePath = "" THEN FALSE ELSE GitAddFileFails(r, filePath)
        added == IF filePath = "" THEN GitAddAll(r) ELSE GitAddFile(r, filePath)
        done == GitCommit(added, message)
    IN IF addFails THEN [r |-> r, err |-> TRUE, head |-> 0]
       ELSE IF gitFails = "commit" THEN [r |-> added, err |-> TRUE, head |-> 0]
       ELSE IF gitFails = "rev-parse" THEN [r |-> done, err |-> TRUE, head |-> 0]
       ELSE [r |-> done, err |-> FALSE, head |-> Len(done.commits)]

RollbackToNothing(r, n, fault) == r

\* rollbackTo: reset --hard, then clean -fd; its callers drop its error.
RollbackTo(r, n, fault) ==
    IF fault = "reset" THEN r
    ELSE IF fault = "clean" THEN GitResetHard(r, n)
    ELSE GitClean(GitResetHard(r, n))

\* ApplyUnifiedDiffPatch: [r, err, ids]; ids are the identifiers named in
\* the text returned on success.
ApplyUnifiedDiffPatch(r, patch, verifyMode, fault) ==
    LET pre == CreateCheckpoint(r, "", "pre-apply",
                                IF fault = "pre_commit" THEN "commit" ELSE "none") IN
    IF pre.err THEN [r |-> pre.r, err |-> "pre_checkpoint", ids |-> <<>>]
    ELSE IF GitApplyFails(pre.r, patch)
    THEN [r |-> RollbackTo(pre.r, pre.head, fault), err |-> "apply", ids |-> <<>>]
    ELSE LET applied == GitApply(pre.r, patch) IN
         IF VerificationFails(applied, verifyMode)
         THEN [r |-> RollbackTo(applied, pre.head, fault), err |-> "verify", ids |-> <<>>]
         ELSE LET post == CreateCheckpoint(applied, "", "post-apply",
                              CASE fault = "post_commit" -> "commit"
                                [] fault = "post_rev_parse" -> "rev-parse"
                                [] OTHER -> "none") IN
              IF post.err
              THEN [r |-> RollbackTo(post.r, pre.head, fault), err |-> "post_checkpoint",
                    ids |-> <<>>]
              ELSE [r |-> post.r, err |-> "none", ids |-> <<pre.head, post.head>>]

\* UndoLastCheckpoints: [r, err].
UndoLastCheckpoints(r, steps, fault) ==
    IF steps < 1 \/ Len(r.commits) <= steps \/ fault = "reset" THEN [r |-> r, err |-> TRUE]
    ELSE LET back == GitResetHard(r, Len(r.commits) - steps) IN
         IF fault = "clean" THEN [r |-> back, err |-> TRUE]
         ELSE [r |-> GitClean(back), err |-> FALSE]

\* EditorHistory: git log -n, the newest checkpoint first, as id and message.
EditorHistory(r, n) ==
    LET len == Len(r.commits)
        shown == IF n < len THEN n ELSE len
    IN  [p \in 1..shown |-> [id |-> len - p + 1, msg |-> r.commits[len - p + 1].msg]]

InitEditor ==
    /\ ChatOff /\ FacOff /\ AgOff /\ AuxOff /\ ScOff /\ FoOff /\ SpOff /\ PfOff /\ SgOff /\ RvOff /\ UdOff /\ TiOff
    /\ wt \in Worktrees
    /\ ignored \in {{}, {"out.txt"}}
    /\ index = NoFiles
    /\ commits = <<>>
    /\ edPc = "ready"
    /\ edLast = [op |-> "none", err |-> "none", before |-> NoFiles, fault |-> "none", ids |-> <<>>]

EdOnly == UNCHANGED <<rootVars, facVars, agVars, auxVars>>

SetRepo(r) ==
    /\ wt' = r.wt
    /\ index' = r.index
    /\ commits' = r.commits

\* patch_file (ApplyFilePatch) or a shell command rewrites a file.
EditFile(f, c) ==
    /\ EdOnly
    /\ edPc = "ready"
    /\ wt[f] # c
    /\ [wt EXCEPT ![f] = c] \in Worktrees
    /\ wt' = [wt EXCEPT ![f] = c]
    /\ edLast' = [op |-> "edit", err |-> "none", before |-> NoFiles, fault |-> "none", ids |-> <<>>]
    /\ UNCHANGED <<ignored, index, commits, edPc>>

\* The create_checkpoint tool.
Checkpoint(filePath, fault) ==
    /\ EdOnly
    /\ edPc = "ready"
    /\ Len(commits) < MaxCommits
    /\ LET res == CreateCheckpoint(Repo, filePath, "editor checkpoint",
                                   IF fault = "pre_commit" THEN "commit" ELSE "none") IN
       /\ SetRepo(res.r)
       /\ edLast' = [op |-> "checkpoint", err |-> IF res.err THEN "checkpoint" ELSE "none",
                     before |-> NoFiles, fault |-> "none", ids |-> <<>>]
    /\ UNCHANGED <<ignored, edPc>>

\* The apply_unified_diff_patch tool.
ApplyPatch(patch, verifyMode, fault) ==
    /\ EdOnly
    /\ edPc = "ready"
    /\ Len(commits) + 2 <= MaxCommits
    /\ LET res == ApplyUnifiedDiffPatch(Repo, patch, verifyMode, fault) IN
       /\ SetRepo(res.r)
       /\ edLast' = [op |-> "apply", err |-> res.err,
                     before |-> IF res.err = "none" THEN NoFiles ELSE wt,
                     fault |-> IF res.err = "none" THEN "none" ELSE fault,
                     ids |-> res.ids]
    /\ UNCHANGED <<ignored, edPc>>

\* The undo_checkpoints tool.
Undo(steps, fault) ==
    /\ EdOnly
    /\ edPc = "ready"
    /\ LET res == UndoLastCheckpoints(Repo, steps, fault) IN
       /\ SetRepo(res.r)
       /\ edLast' = [op |-> "undo", err |-> IF res.err THEN "undo" ELSE "none",
                     before |-> NoFiles, fault |-> "none", ids |-> <<>>]
    /\ UNCHANGED <<ignored, edPc>>

NextEditor ==
    \/ \E f \in Files, c \in Contents \cup {Absent} : EditFile(f, c)
    \/ \E fp \in Files \cup {""}, fault \in {"none", "pre_commit"} : Checkpoint(fp, fault)
    \/ \E new \in Worktrees \ {wt}, stale \in BOOLEAN,
          m \in VerifyModes, fault \in Faults :
          ApplyPatch(PatchOf(wt, new, stale), m, fault)
    \/ \E n \in 0..MaxCommits, fault \in {"none", "reset", "clean"} : Undo(n, fault)

SpecEditor == InitEditor /\ [][NextEditor]_vars

\* ------------------------------------------ the subagent loop (Agent.Run)
\* Durations are in whole seconds.
maxSubagentIterations == 16

finalizeWindow == 20

finalizeBudget == 8

minBudgetRemaining == 2

budgetReserve == 1

\* finalCtx := ctx: no budget of its own.
NoBudget == 0

Min(a, b) == IF a < b THEN a ELSE b

SubagentLoopGuardLoose(i) == i <= maxSubagentIterations

\* for i := 0; i < maxSubagentIterations; i++
SubagentLoopGuard(i) == i < maxSubagentIterations

shouldFinalizeNowStrict(hasDeadline, remaining, threshold) ==
    IF threshold <= 0 THEN FALSE
    ELSE IF ~hasDeadline THEN FALSE
    ELSE remaining < threshold

shouldFinalizeNow(hasDeadline, remaining, threshold) ==
    IF threshold <= 0 THEN FALSE
    ELSE IF ~hasDeadline THEN FALSE
    ELSE remaining <= threshold

FinalizeBudgetFlat(remaining) == finalizeBudget

\* The budget forceFinalizeNoTools puts on the completion, NoBudget if none.
FinalizeBudget(remaining) ==
    IF remaining > minBudgetRemaining
    THEN LET budget == IF remaining < finalizeBudget
                       THEN remaining - budgetReserve
                       ELSE finalizeBudget
         IN IF budget > 0 THEN budget ELSE NoBudget
    ELSE NoBudget

\* The time after which finalCtx is done: its own timeout or ctx's deadline.
FinalizeLimit(remaining, budget) ==
    IF budget = NoBudget THEN remaining ELSE Min(budget, remaining)

\* What Agent.Run returns besides the error.
Progress(has) == IF has THEN "progress" ELSE "empty"

AgOnly == UNCHANGED <<rootVars, edVars, facVars, auxVars>>

InitAgent ==
    /\ ChatOff /\ EdOff /\ FacOff /\ AuxOff
    /\ agPc = "check"
    /\ agI = 0
    /\ agHasDeadline \in BOOLEAN
    /\ agRemaining \in IF agHasDeadline THEN 0..MaxRemaining ELSE {0}
    /\ agToolsLeft = 0
    /\ agProgress = FALSE
    /\ agCompletions = 0
    /\ agFinalCompletions = 0
    /\ agCheck = NoCheck
    /\ agFinal = NoFinal
    /\ agResult = NoResult

AgReturn(out, err) ==
    /\ agPc' = "done"
    /\ agResult' = [out |-> out, err |-> err]

\* A second passes.
AgTick ==
    /\ AgOnly
    /\ agPc \notin {"off", "done"}
    /\ agHasDeadline
    /\ agRemaining > -1
    /\ agRemaining' = agRemaining - 1
    /\ UNCHANGED <<agPc, agI, agHasDeadline, agToolsLeft, agProgress, agCompletions,
                   agFinalCompletions, agCheck, agFinal, agResult>>

\* The loop condition fails: the iterations are used up.
AgExceeded ==
    /\ AgOnly
    /\ agPc = "check"
    /\ ~SubagentLoopGuard(agI)
    /\ AgReturn(Progress(agProgress), "exceeded maximum tool iterations")
    /\ UNCHANGED <<agI, agHasDeadline, agRemaining, agToolsLeft, agProgress,
                   agCompletions, agFinalCompletions, agCheck, agFinal>>

\* The top of an iteration: shouldFinalizeNow, then the completion request.
AgCheck ==
    /\ AgOnly
    /\ agPc = "check"
    /\ SubagentLoopGuard(agI)
    /\ LET fin == shouldFinalizeNow(agHasDeadline, agRemaining, finalizeWindow) IN
       /\ agCheck' = [made |-> TRUE, rem |-> agRemaining, fin |-> fin]
       /\ agPc' = IF fin THEN "finalize" ELSE "completing"
       /\ agCompletions' = IF fin THEN agCompletions ELSE agCompletions + 1
    /\ UNCHANGED <<agI, agHasDeadline, agRemaining, agToolsLeft, agProgress,
                   agFinalCompletions, agFinal, agResult>>

\* RunCompletionOnce with the tool list fails.
AgCompletionErr ==
    /\ AgOnly
    /\ agPc = "completing"
    /\ AgReturn(Progress(agProgress), "completion")
    /\ UNCHANGED <<agI, agHasDeadline, agRemaining, agToolsLeft, agProgress,
                   agCompletions, agFinalCompletions, agCheck, agFinal>>

\* RunCompletionOnce answers with text or not and with n tool calls.
AgCompletionOK(text, n) ==
    /\ AgOnly
    /\ agPc = "completing"
    /\ agHasDeadline => agRemaining > 0
    /\ agProgress' = (agProgress \/ text)
    /\ IF n = 0
       THEN /\ AgReturn(Progress(agProgress'), "none")
            /\ UNCHANGED agToolsLeft
       ELSE /\ agPc' = "tools"
            /\ agToolsLeft' = n
            /\ UNCHANGED agResult
    /\ UNCHANGED <<agI, agHasDeadline, agRemaining, agCompletions,
                   agFinalCompletions, agCheck, agFinal>>

\* executeToolCall for the next tool call; after the last one, i++.
AgExecTool ==
    /\ AgOnly
    /\ agPc = "tools"
    /\ agToolsLeft > 0
    /\ agProgress' = TRUE
    /\ agToolsLeft' = agToolsLeft - 1
    /\ agPc' = IF agToolsLeft' = 0 THEN "check" ELSE "tools"
    /\ agI' = IF agToolsLeft' = 0 THEN agI + 1 ELSE agI
    /\ UNCHANGED <<agHasDeadline, agRemaining, agCompletions, agFinalCompletions,
                   agCheck, agFinal, agResult>>

\* forceFinalizeNoTools: the budget, then the completion request without tools.
AgFinalize ==
    /\ AgOnly
    /\ agPc = "finalize"
    /\ LET budget == FinalizeBudget(agRemaining) IN
       agFinal' = [taken |-> TRUE, rem |-> agRemaining, budget |-> budget,
                   limit |-> FinalizeLimit(agRemaining, budget)]
    /\ agFinalCompletions' = agFinalCompletions + 1
    /\ agPc' = "finalizing"
    /\ UNCHANGED <<agI, agHasDeadline, agRemaining, agToolsLeft, agProgress,
                   agCompletions, agCheck, agResult>>

\* The no-tools completion answers, with a final text or with none.
AgFinalOK(text) ==
    /\ AgOnly
    /\ agPc = "finalizing"
    /\ agFinal.limit > 0 /\ agRemaining > 0
    /\ IF text
       THEN AgReturn(IF agProgress THEN "progress+final" ELSE "final", "none")
       ELSE AgReturn(Progress(agProgress), "deadline exceeded")
    /\ UNCHANGED <<agI, agHasDeadline, agRemaining, agToolsLeft, agProgress,
                   agCompletions, agFinalCompletions, agCheck, agFinal>>

\* The no-tools completion fails or runs out of time.
AgFinalErr ==
    /\ AgOnly
    /\ agPc = "finalizing"
    /\ AgReturn(Progress(agProgress), "deadline exceeded")
    /\ UNCHANGED <<agI, agHasDeadline, agRemaining, agToolsLeft, agProgress,
                   agCompletions, agFinalCompletions, agCheck, agFinal>>

NextAgent ==
    \/ AgTick
    \/ AgExceeded
    \/ AgCheck
    \/ AgCompletionErr
    \/ \E text \in BOOLEAN, n \in 0..MaxToolCalls : AgCompletionOK(text, n)
    \/ AgExecTool
    \/ AgFinalize
    \/ \E text \in BOOLEAN : AgFinalOK(text)
    \/ AgFinalErr

SpecAgent == InitAgent /\ [][NextAgent]_vars


\* -------------------------------- the subagent factory (runFactoryWithDepth)
maxSubagentDepth == 2

defaultConcurrency == 3

defaultTimeoutSec == 600

maxConcurrencyCap == 200

statusNoError == "NOERROR"

statusFailed == "FAILED"

statusUnknown == "UNKNOWN"

\* input.MaxConcurrency values a caller passes.
ConcurrencyInputs == {0, 1}

\* maxConc as runFactoryWithDepth clamps it.
ClampConcurrency(c) ==
    IF c <= 0 THEN defaultConcurrency
    ELSE IF c > maxConcurrencyCap THEN maxConcurrencyCap
    ELSE c

NoReport == [total |-> 0, noError |-> {}, failed |-> {}, unknown |-> {}]

\* The workers of batch b, as positions in workers.
WorkersOf(b) == {w \in 1..Len(workers) : workers[w].batch = b}

\* The workers of batch b that hold a slot of its semaphore.
Holding(b) == {w \in WorkersOf(b) : workers[w].phase \in {"running", "doomed", "calling"}}

SlotFreeAlways(b) == TRUE

\* sem <- struct{}{} can proceed.
SlotFree(b) == Cardinality(Holding(b)) < batches[b].maxConc

\* The status a worker gives its task from what agent.Run returned.
StatusOf(outcome) ==
    IF outcome = "error" THEN statusFailed
    ELSE IF outcome = "empty" THEN statusUnknown
    ELSE statusNoError

\* The results channel drained: task index -> status.
Collected(b) == {w \in WorkersOf(b) : workers[w].phase = "done"}

UnknownBucketLoose(b) ==
    {workers[w].idx : w \in {v \in Collected(b) : workers[v].status # statusNoError}}

\* The default case of the switch on item.Status.
UnknownBucket(b) ==
    {workers[w].idx : w \in {v \in Collected(b) :
                              workers[v].status \notin {statusNoError, statusFailed}}}

BuildReport(b) ==
    [total |-> Cardinality(Collected(b)),
     noError |-> {workers[w].idx : w \in {v \in Collected(b) : workers[v].status = statusNoError}},
     failed |-> {workers[w].idx : w \in {v \in Collected(b) : workers[v].status = statusFailed}},
     unknown |-> UnknownBucket(b)]

DepthLimitReachedLoose(depth) == depth > maxSubagentDepth

\* a.depth >= maxSubagentDepth
DepthLimitReached(depth) == depth >= maxSubagentDepth

RECURSIVE TasksOfBatches(_)
\* len(tasks) summed over the first b batches.
TasksOfBatches(b) == IF b = 0 THEN 0 ELSE batches[b].n + TasksOfBatches(b - 1)

\* A batch of n tasks is started only when all its workers fit the bound on
\* the worker goroutines, so that its spawn loop runs to its end.
WorkersFit(n) == TasksOfBatches(Len(batches)) + n <= MaxWorkers

ResultsCapacityUnbuffered(b) == 0

\* results := make(chan taskResult, len(tasks))
ResultsCapacity(b) == batches[b].n

\* results <- taskResult{ctx: tctx} can proceed: nothing is received before
\* wg.Wait returns, so the channel holds the results of the finished workers.
ResultsHasRoom(b) == Cardinality(Collected(b)) < ResultsCapacity(b)

FacOnly == UNCHANGED <<rootVars, edVars, agVars, auxVars>>

InitFactory ==
    /\ ChatOff /\ EdOff /\ AgOff /\ AuxOff
    /\ facPc = "on"
    /\ facExperimental \in BOOLEAN
    /\ facCanceled = FALSE
    /\ batches = <<>>
    /\ workers = <<>>
    /\ facLast = NoFactoryCall

\* runFactoryWithDepth up to the spawn loop.
StartBatch(depth, owner, n, c) ==
    batches' = Append(batches, [depth |-> depth, owner |-> owner, n |-> n,
                                maxConc |-> ClampConcurrency(c), next |-> 0,
                                broke |-> FALSE, phase |-> "spawning",
                                report |-> NoReport])

\* The root loop's subagent_factory tool: Manager.RunFactory, called once.
RunFactory(n, c) ==
    /\ FacOnly
    /\ facPc = "on"
    /\ Len(batches) < MaxBatches
    /\ batches = <<>>
    /\ WorkersFit(n)
    /\ StartBatch(1, 0, n, c)
    /\ UNCHANGED <<facPc, facExperimental, facCanceled, workers, facLast>>

\* The context given to RunFactory is canceled.
FacCancel ==
    /\ FacOnly
    /\ facPc = "on"
    /\ ~facCanceled
    /\ facCanceled' = TRUE
    /\ UNCHANGED <<facPc, facExperimental, batches, workers, facLast>>

\* One pass of the spawn loop of batch b.
Spawn(b) ==
    /\ FacOnly
    /\ batches[b].phase = "spawning"
    /\ IF batches[b].next = batches[b].n
       THEN /\ batches' = [batches EXCEPT ![b].phase = "waiting"]
            /\ UNCHANGED workers
       ELSE IF facCanceled
       THEN /\ batches' = [batches EXCEPT ![b].phase = "waiting", ![b].broke = TRUE]
            /\ UNCHANGED workers
       ELSE /\ batches' = [batches EXCEPT ![b].next = @ + 1]
            /\ workers' = Append(workers, [batch |-> b, idx |-> batches[b].next + 1,
                                           phase |-> "queued", status |-> statusUnknown])
    /\ UNCHANGED <<facPc, facExperimental, facCanceled, facLast>>

\* A worker gets a slot of its batch's semaphore and starts agent.Run.
Acquire(w) ==
    /\ FacOnly
    /\ workers[w].phase = "queued"
    /\ SlotFree(workers[w].batch)
    /\ workers' = [workers EXCEPT ![w].phase = IF facCanceled THEN "doomed" ELSE "running"]
    /\ UNCHANGED <<facPc, facExperimental, facCanceled, batches, facLast>>

\* The agent of worker w executes a subagent_factory tool call.
AgentCallsFactory(w, n, c) ==
    /\ FacOnly
    /\ workers[w].phase = "running"
    /\ LET depth == batches[workers[w].batch].depth IN
       IF ~facExperimental
       THEN /\ facLast' = [depth |-> depth, result |-> "disabled"]
            /\ UNCHANGED <<batches, workers>>
       ELSE IF DepthLimitReached(depth)
       THEN /\ facLast' = [depth |-> depth, result |-> "depth limit"]
            /\ UNCHANGED <<batches, workers>>
       ELSE /\ Len(batches) < MaxBatches
            /\ WorkersFit(n)
            /\ facLast' = [depth |-> depth, result |-> "batch"]
            /\ StartBatch(depth + 1, w, n, c)
            /\ workers' = [workers EXCEPT ![w].phase = "calling"]
    /\ UNCHANGED <<facPc, facExperimental, facCanceled>>

\* agent.Run of worker w returns; the worker stores and sends its result and
\* releases its slot.
Finish(w, outcome) ==
    /\ FacOnly
    /\ workers[w].phase \in {"running", "doomed"}
    /\ workers[w].phase = "doomed" => outcome = "error"
    /\ ResultsHasRoom(workers[w].batch)
    /\ workers' = [workers EXCEPT ![w].phase = "done", ![w].status = StatusOf(outcome)]
    /\ UNCHANGED <<facPc, facExperimental, facCanceled, batches, facLast>>

\* wg.Wait returns; the report is built and returned to the caller.
Report(b) ==
    /\ FacOnly
    /\ batches[b].phase = "waiting"
    /\ WorkersOf(b) = Collected(b)
    /\ batches' = [batches EXCEPT ![b].phase = "reported", ![b].report = BuildReport(b)]
    /\ workers' = IF batches[b].owner = 0 THEN workers
                  ELSE [workers EXCEPT ![batches[b].owner].phase =
                            IF facCanceled THEN "doomed" ELSE "running"]
    /\ UNCHANGED <<facPc, facExperimental, facCanceled, facLast>>

NextFactory ==
    \/ \E n \in 1..MaxTasks, c \in ConcurrencyInputs : RunFactory(n, c)
    \/ FacCancel
    \/ \E b \in 1..Len(batches) : Spawn(b)
    \/ \E w \in 1..Len(workers) : Acquire(w)
    \/ \E w \in 1..Len(workers), n \in 1..MaxTasks, c \in ConcurrencyInputs :
          AgentCallsFactory(w, n, c)
    \/ \E w \in 1..Len(workers), outcome \in {"ok", "empty", "error"} : Finish(w, outcome)
    \/ \E b \in 1..Len(batches) : Report(b)

SpecFactory == InitFactory /\ [][NextFactory]_vars

\* The steps the program takes by itself: the spawn loop and wg.Wait of every
\* running runFactoryWithDepth, and the worker goroutines, which the Go
\* scheduler runs whenever they can proceed; agent.Run of a worker returns
\* (every completion and tool call terminates, and the loop of Agent.Run is
\* bounded). Starting a batch and canceling the context are the
\* environment's choice and carry no fairness.
FactoryFairness ==
    /\ WF_vars(\E b \in 1..Len(batches) : Spawn(b))
    /\ WF_vars(\E w \in 1..Len(workers) : Acquire(w))
    /\ WF_vars(\E w \in 1..Len(workers), outcome \in {"ok", "empty", "error"} : Finish(w, outcome))
    /\ WF_vars(\E b \in 1..Len(batches) : Report(b))

SpecFactoryFair == SpecFactory /\ FactoryFairness


\* ------------------------------------ task classification (manager.go:253)
\* The characters of an agent's output: two kinds of white space and a letter.
Chars == {" ", "\n", "a"}

IsSpace(c) == c \in {" ", "\n", "\r", "\t"}

Outputs == UNION {[1..n -> Chars] : n \in 0..MaxOut}

RECURSIVE TrimLeft(_)
TrimLeft(str) ==
    IF str = <<>> THEN <<>>
    ELSE IF IsSpace(Head(str)) THEN TrimLeft(Tail(str)) ELSE str

RECURSIVE TrimRight(_)
TrimRight(str) ==
    IF str = <<>> THEN <<>>
    ELSE IF IsSpace(str[Len(str)]) THEN TrimRight(SubSeq(str, 1, Len(str) - 1)) ELSE str

\* strings.TrimSpace
TrimSpace(str) == TrimRight(TrimLeft(str))

\* What agent.Run returns as its error: none, one of the context's errors
\* (bare or wrapped), or any other error.
RunErrs == {"nil", "DeadlineExceeded", "Canceled", "other"}

classifyRunErrFlat(err) == IF err = "nil" THEN "" ELSE "run_error"

classifyRunErr(err) ==
    IF err = "nil" THEN ""
    ELSE IF err = "DeadlineExceeded" THEN "timeout"
    ELSE IF err = "Canceled" THEN "canceled"
    ELSE "run_error"

\* Status and ErrorCode of a task, from what agent.Run returned.
ClassifyTask(runErr, out) ==
    IF runErr # "nil"
    THEN [status |-> statusFailed, code |-> classifyRunErr(runErr)]
    ELSE IF TrimSpace(out) = <<>>
    THEN [status |-> statusUnknown, code |-> "empty_output"]
    ELSE [status |-> statusNoError, code |-> ""]

ClsOnly == UNCHANGED <<rootVars, edVars, facVars, agVars, td, agCanceled, pz, rt, st, ms, cc, xg, sc, fo, sp, pf, sg, rv, ud, ti>>

InitClassify ==
    /\ ChatOff /\ EdOff /\ FacOff /\ AgOff /\ TdOff /\ AcOff /\ PzOff /\ RtOff /\ StOff /\ MsOff /\ CcOff /\ XgOff /\ ScOff /\ FoOff /\ SpOff /\ PfOff /\ SgOff /\ RvOff /\ UdOff /\ TiOff
    /\ cls \in [pc : {"returned"}, err : RunErrs, out : Outputs]

\* The worker classifies the returned (err, output).
Classify ==
    /\ ClsOnly
    /\ cls.pc = "returned"
    /\ LET c == ClassifyTask(cls.err, cls.out) IN
       cls' = [pc |-> "classified", err |-> cls.err, out |-> cls.out,
               status |-> c.status, code |-> c.code]

NextClassify == Classify

SpecClassify == InitClassify /\ [][NextClassify]_vars


\* ------------------------------- tool dispatch in the two agent loops
\* Tool names a model may send: two known to both loops, one known to the
\* root loop only, one known to neither.
ToolNames == {"run_command", "read_file", "project_architect", "frobnicate"}

RootTools == {"run_command", "read_file", "project_architect"}

SubagentTools == {"run_command", "read_file"}

KnownTools(loop) == IF loop = "root" THEN RootTools ELSE SubagentTools

\* A tool call: its name, whether its arguments parse, whether the tool fails.
ToolCalls == [name : ToolNames, args : {"valid", "invalid"}, fails : BOOLEAN]

\* Texts are sequences of their pieces.
UnsupportedTextBare(name) == <<"Error: ", "unsupported tool ", name>>

UnsupportedText(name) == <<"Error: ", "unsupported tool '", name, "'">>

InvalidArgsText(name) == <<"Error: ", "invalid arguments for ", name, ": ", "err">>

FailureText(name) ==
    IF name = "project_architect" THEN <<"Error: ", "project_architect failed: ", "err">>
    ELSE <<"Error: ", "err">>

\* toolResponse of the root loop's switch, toolOutput of executeToolCall.
ToolResponse(loop, call) ==
    IF call.name \notin KnownTools(loop) THEN UnsupportedText(call.name)
    ELSE IF call.args = "invalid" THEN InvalidArgsText(call.name)
    ELSE IF call.fails THEN FailureText(call.name)
    ELSE <<"output">>

TdOnly == UNCHANGED <<rootVars, edVars, facVars, agVars, cls, agCanceled, pz, rt, st, ms, cc, xg, sc, fo, sp, pf, sg, rv, ud, ti>>

InitDispatch ==
    /\ ChatOff /\ EdOff /\ FacOff /\ AgOff /\ ClsOff /\ AcOff /\ PzOff /\ RtOff /\ StOff /\ MsOff /\ CcOff /\ XgOff /\ ScOff /\ FoOff /\ SpOff /\ PfOff /\ SgOff /\ RvOff /\ UdOff /\ TiOff
    /\ td \in [pc : {"tools"}, loop : {"root", "subagent"},
               calls : UNION {[1..n -> ToolCalls] : n \in 1..MaxToolCalls},
               k : {1}, msgs : {<<>>}, completions : {0}]

\* The next tool call is dispatched and its tool message appended.
TdExecTool ==
    /\ TdOnly
    /\ td.pc = "tools"
    /\ td.k <= Len(td.calls)
    /\ td' = [td EXCEPT !.k = @ + 1,
                        !.msgs = Append(@, [role |-> "tool", ToolCallID |-> td.k,
                                            Content |-> ToolResponse(td.loop, td.calls[td.k])])]

\* After the last tool call the loop goes on to its next completion.
TdNextCompletion ==
    /\ TdOnly
    /\ td.pc = "tools"
    /\ td.k > Len(td.calls)
    /\ td' = [td EXCEPT !.pc = "completing", !.completions = @ + 1]

NextDispatch == TdExecTool \/ TdNextCompletion

SpecDispatch == InitDispatch /\ [][NextDispatch]_vars


\* ------------------------- the subagent loop under cancellation of its context
\* The context of Agent.Run is canceled while Run executes.
AgCancel ==
    /\ agPc \notin {"off", "done"}
    /\ ~agCanceled
    /\ agCanceled' = TRUE
    /\ UNCHANGED <<rootVars, edVars, facVars, agVars, cls, td, pz, rt, st, ms, cc, xg, sc, fo, sp, pf, sg, rv, ud, ti>>

\* RunCompletionOnce with the tool list returns the context's error.
AgCompletionCanceled ==
    /\ AgOnly
    /\ agPc = "completing"
    /\ agCanceled
    /\ AgReturn(Progress(agProgress), "context canceled")
    /\ UNCHANGED <<agI, agHasDeadline, agRemaining, agToolsLeft, agProgress,
                   agCompletions, agFinalCompletions, agCheck, agFinal>>

\* The error agent.Run returned, as errors.Is sees it.
RunErrOf(err) ==
    IF err = "none" THEN "nil"
    ELSE IF err = "deadline exceeded" THEN "DeadlineExceeded"
    ELSE IF err = "context canceled" THEN "Canceled"
    ELSE "other"

NextAgentCancel ==
    \/ AgCancel
    \/ AgTick
    \/ AgExceeded
    \/ AgCheck
    \/ (~agCanceled /\ AgCompletionErr)
    \/ AgCompletionCanceled
    \/ (~agCanceled /\ \E text \in BOOLEAN, n \in 0..MaxToolCalls : AgCompletionOK(text, n))
    \/ AgExecTool
    \/ AgFinalize
    \/ (~agCanceled /\ \E text \in BOOLEAN : AgFinalOK(text))
    \/ AgFinalErr

SpecAgentCancel == InitAgent /\ [][NextAgentCancel]_vars


\* --------------------------- PauseController.WaitIfPaused in the root loop
KeepsWaitingAlways(flag) == TRUE

\* for p.IsPaused()
KeepsWaiting(flag) == flag

PzOnly == UNCHANGED <<rootVars, edVars, facVars, agVars, cls, td, agCanceled, rt, st, ms, cc, xg, sc, fo, sp, pf, sg, rv, ud, ti>>

\* The loop calls WaitIfPaused at a turn boundary ("top") or between two
\* tool calls ("gap"), with the flag set or not.
InitPause ==
    /\ ChatOff /\ EdOff /\ FacOff /\ AgOff /\ ClsOff /\ TdOff /\ AcOff /\ RtOff /\ StOff /\ MsOff /\ CcOff /\ XgOff /\ ScOff /\ FoOff /\ SpOff /\ PfOff /\ SgOff /\ RvOff /\ UdOff /\ TiOff
    /\ pz \in [pc : {"is_paused"}, site : {"top", "gap"}, paused : BOOLEAN,
               canceled : {FALSE}, polls : {0}, sinceClear : {0},
               started : {"none"}, exit : {"none"}]

\* Ctrl+Z: Toggle.
PzToggle ==
    /\ PzOnly
    /\ pz.pc \in {"is_paused", "select"}
    /\ pz' = [pz EXCEPT !.paused = ~@, !.sinceClear = 0]

\* Ctrl+C: the context is canceled.
PzCancel ==
    /\ PzOnly
    /\ pz.pc \in {"is_paused", "select"}
    /\ ~pz.canceled
    /\ pz' = [pz EXCEPT !.canceled = TRUE]

\* The loop condition: wait on, or return nil.
PzIsPaused ==
    /\ PzOnly
    /\ pz.pc = "is_paused"
    /\ pz' = [pz EXCEPT !.pc = IF KeepsWaiting(pz.paused) THEN "select" ELSE "nil"]

\* select: the 200 ms timer expires.
PzTimer ==
    /\ PzOnly
    /\ pz.pc = "select"
    /\ pz.polls < MaxPolls
    /\ pz' = [pz EXCEPT !.pc = "is_paused", !.polls = @ + 1,
                        !.sinceClear = IF pz.paused THEN 0 ELSE @ + 1]

\* select: ctx.Done() is ready; WaitIfPaused returns ctx.Err().
PzDone ==
    /\ PzOnly
    /\ pz.pc = "select"
    /\ pz.canceled
    /\ pz' = [pz EXCEPT !.pc = "err"]

\* WaitIfPaused returned nil: at the top the loop checks ctx.Err() and asks
\* for a completion, in the gap it runs the tool call.
PzProceed ==
    /\ PzOnly
    /\ pz.pc = "nil"
    /\ pz' = IF pz.site = "gap" THEN [pz EXCEPT !.pc = "running", !.started = "tool"]
             ELSE IF pz.canceled THEN [pz EXCEPT !.pc = "returned", !.exit = "stopped"]
             ELSE [pz EXCEPT !.pc = "running", !.started = "completion"]

\* WaitIfPaused returned an error: ProcessConversation returns.
PzReturn ==
    /\ PzOnly
    /\ pz.pc = "err"
    /\ pz' = [pz EXCEPT !.pc = "returned", !.exit = "canceled"]

NextPause ==
    PzToggle \/ PzCancel \/ PzIsPaused \/ PzTimer \/ PzDone \/ PzProceed \/ PzReturn

SpecPause == InitPause /\ [][NextPause]_vars


\* ------------------------------------------------ Client.doWithRetry
maxRetryAttempts == 7
baseRetryDelay == 2      \* seconds
maxRetryDelay == 8       \* seconds

\* 0 stands for a transport error (no response).
TransportError == 0
Statuses == {200, 400, 408, 429, 500, 502, 503, 504}

isRetryableStatusAny(code) == code # 200

isRetryableStatus(code) ==
    code \in {408, 429, 502, 503, 504} \/ (code >= 500 /\ code <= 599)

retryDelayForAttemptUnclamped(attempt) == baseRetryDelay * 2 ^ (attempt - 1)

retryDelayForAttempt(attempt) ==
    Min(baseRetryDelay * 2 ^ (attempt - 1), maxRetryDelay)

\* A Retry-After header: absent, integer seconds, an HTTP date that many
\* seconds from now, or text that is neither.
NoHeader == [kind |-> "none", v |-> 0]
RetryAfterHeaders ==
    {NoHeader, [kind |-> "bad", v |-> 0]}
        \cup [kind : {"seconds"}, v : {1, 3, 30}]
        \cup [kind : {"date"}, v : {5, 120}]

retryAfterDelay(h) ==
    IF h.kind \in {"seconds", "date"} /\ h.v > 0
    THEN [ok |-> TRUE, d |-> Min(h.v, maxRetryDelay)]
    ELSE [ok |-> FALSE, d |-> 0]

Responses ==
    {[status |-> TransportError, retryAfter |-> NoHeader]}
        \cup [status : Statuses, retryAfter : RetryAfterHeaders]

ShouldRetry(resp) == resp.status = TransportError \/ isRetryableStatus(resp.status)

WaitFor(attempt, resp) ==
    IF retryAfterDelay(resp.retryAfter).ok
    THEN retryAfterDelay(resp.retryAfter).d
    ELSE retryDelayForAttempt(attempt)

ctxErrNil(done) == "nil"

ctxErr(done) == IF done THEN "canceled" ELSE "nil"

RtOnly == UNCHANGED <<rootVars, edVars, facVars, agVars, cls, td, agCanceled, pz, st, ms, cc, xg, sc, fo, sp, pf, sg, rv, ud, ti>>

InitRetry ==
    /\ ChatOff /\ EdOff /\ FacOff /\ AgOff /\ ClsOff /\ TdOff /\ AcOff /\ PzOff /\ StOff /\ MsOff /\ CcOff /\ XgOff /\ ScOff /\ FoOff /\ SpOff /\ PfOff /\ SgOff /\ RvOff /\ UdOff /\ TiOff
    /\ rt = [pc |-> "issue", attempt |-> 1, issued |-> 0, canceled |-> FALSE,
             atCancel |-> [issued |-> 0, remaining |-> 0],
             last |-> [status |-> TransportError, retryAfter |-> NoHeader],
             delay |-> 0, remaining |-> 0, result |-> "none"]

\* The caller's context is canceled.
RtCancel ==
    /\ RtOnly
    /\ rt.pc \in {"issue", "wait"}
    /\ ~rt.canceled
    /\ rt' = [rt EXCEPT !.canceled = TRUE,
                        !.atCancel = [issued |-> rt.issued, remaining |-> rt.remaining]]

\* One attempt: the request is built afresh and sent, resp comes back.
RtAttempt(resp) ==
    /\ RtOnly
    /\ rt.pc = "issue"
    /\ ctxErr(rt.canceled) = "nil"
    /\ rt' = IF resp.status = 200
             THEN [rt EXCEPT !.issued = @ + 1, !.last = resp, !.pc = "done", !.result = "ok"]
             ELSE IF ShouldRetry(resp) /\ rt.attempt < maxRetryAttempts
             THEN [rt EXCEPT !.issued = @ + 1, !.last = resp, !.pc = "wait",
                             !.delay = WaitFor(rt.attempt, resp),
                             !.remaining = WaitFor(rt.attempt, resp)]
             ELSE [rt EXCEPT !.issued = @ + 1, !.last = resp, !.pc = "done",
                             !.result = IF resp.status = TransportError
                                        THEN "transport_error" ELSE "api_error"]

\* The context is done: no attempt, no more waiting.
RtAbort ==
    /\ RtOnly
    /\ rt.pc \in {"issue", "wait"}
    /\ ctxErr(rt.canceled) # "nil"
    /\ rt' = [rt EXCEPT !.pc = "done", !.result = ctxErr(rt.canceled)]

\* One second of the wait passes.
RtTick ==
    /\ RtOnly
    /\ rt.pc = "wait"
    /\ rt.remaining > 0
    /\ ctxErr(rt.canceled) = "nil"
    /\ rt' = [rt EXCEPT !.remaining = @ - 1]

\* The wait is over.
RtWake ==
    /\ RtOnly
    /\ rt.pc = "wait"
    /\ rt.remaining = 0
    /\ rt' = [rt EXCEPT !.pc = "issue", !.attempt = @ + 1]

NextRetry ==
    \/ RtCancel
    \/ \E resp \in Responses : RtAttempt(resp)
    \/ RtAbort
    \/ RtTick
    \/ RtWake

SpecRetry == InitRetry /\ [][NextRetry]_vars


\* ------------------------------------- Client.handleStreamingResponse
\* tcChunk.ID: empty, or an ID the server gave.
ChunkIDs == {"", "a", "b"}

\* fmt.Sprintf("idx:%d", i) for the positions i of a chunk's tool_calls.
FallbackKey(i) == <<"idx:0", "idx:1">>[i + 1]

Keys == {"a", "b", "idx:0", "idx:1"}

NoCall == [present |-> FALSE, ID |-> "", name |-> <<>>, args |-> <<>>]

\* One element of choice.Delta.ToolCalls. The text of a name or arguments
\* fragment is represented by the arrival number of the fragment.
Fragments == [id : ChunkIDs, hasName : BOOLEAN, hasArgs : BOOLEAN]

\* choice.Delta.ToolCalls of one chunk: one or two fragments.
Chunks == {<<f>> : f \in Fragments} \cup {<<f, g>> : f \in Fragments, g \in Fragments}

\* toolCallOrder[idx] = key for the first idx holding old.
ReplaceFirst(order, old, new) ==
    [p \in 1..Len(order) |->
        IF order[p] = old /\ \A q \in 1..(p - 1) : order[q] # old
        THEN new ELSE order[p]]

\* The body of `for i, tcChunk := range choice.Delta.ToolCalls`.
ApplyFragment(acc, i, f, tok) ==
    LET fallbackKey == FallbackKey(i)
        key == IF f.id = "" THEN fallbackKey ELSE f.id
        migrate == f.id # "" /\ key # fallbackKey /\ acc.map[fallbackKey].present
        m1 == IF migrate
              THEN [acc.map EXCEPT ![key] = acc.map[fallbackKey], ![fallbackKey] = NoCall]
              ELSE acc.map
        o1 == IF migrate THEN ReplaceFirst(acc.order, fallbackKey, key) ELSE acc.order
        isNew == ~m1[key].present
        m2 == IF isNew
              THEN [m1 EXCEPT ![key] = [present |-> TRUE, ID |-> f.id,
                                        name |-> <<>>, args |-> <<>>]]
              ELSE m1
        o2 == IF isNew THEN Append(o1, key) ELSE o1
        toolCall == m2[key]
    IN  [map |-> [m2 EXCEPT ![key] =
                    [present |-> TRUE,
                     ID |-> IF f.id # "" THEN f.id ELSE toolCall.ID,
                     name |-> IF f.hasName THEN Append(toolCall.name, tok) ELSE toolCall.name,
                     args |-> IF f.hasArgs THEN Append(toolCall.args, tok) ELSE toolCall.args]],
         order |-> o2]

\* Arrival number of the fragment at position i of the n-th chunk.
Token(n, i) == 2 * (n - 1) + i + 1

ApplyChunk(acc, chunk, n) ==
    LET a1 == ApplyFragment(acc, 0, chunk[1], Token(n, 0))
    IN  IF Len(chunk) = 1 THEN a1 ELSE ApplyFragment(a1, 1, chunk[2], Token(n, 1))

\* for _, key := range toolCallOrder: append *tc when the key exists.
Reassemble(acc) ==
    LET all == [p \in 1..Len(acc.order) |-> acc.map[acc.order[p]]]
        tcs == SelectSeq(all, LAMBDA tc : tc.present)
    IN  [p \in 1..Len(tcs) |-> [ID |-> tcs[p].ID, name |-> tcs[p].name, args |-> tcs[p].args]]

StOnly == UNCHANGED <<rootVars, edVars, facVars, agVars, cls, td, agCanceled, pz, rt, ms, cc, xg, sc, fo, sp, pf, sg, rv, ud, ti>>

InitStream ==
    /\ ChatOff /\ EdOff /\ FacOff /\ AgOff /\ ClsOff /\ TdOff /\ AcOff /\ PzOff /\ RtOff /\ MsOff /\ CcOff /\ XgOff /\ ScOff /\ FoOff /\ SpOff /\ PfOff /\ SgOff /\ RvOff /\ UdOff /\ TiOff
    /\ st = [pc |-> "reading", chunks |-> <<>>,
             acc |-> [map |-> [key \in Keys |-> NoCall], order |-> <<>>],
             ToolCalls |-> <<>>]

\* A data line with tool-call fragments is read.
StChunk(chunk) ==
    /\ StOnly
    /\ st.pc = "reading"
    /\ Len(st.chunks) < MaxChunks
    /\ st' = [st EXCEPT !.chunks = Append(@, chunk),
                        !.acc = ApplyChunk(@, chunk, Len(st.chunks) + 1)]

\* [DONE] or end of stream.
StEnd ==
    /\ StOnly
    /\ st.pc = "reading"
    /\ st' = [st EXCEPT !.pc = "done", !.ToolCalls = Reassemble(st.acc)]

NextStream ==
    \/ \E chunk \in Chunks : StChunk(chunk)
    \/ StEnd

SpecStream == InitStream /\ [][NextStream]_vars


\* ------------------------------- the Manager's store of task contexts
scrubInterval == 30      \* seconds between two ticks of m.ticker
TimeStep == 10           \* seconds by which the clock moves

TaskIDs == {1, 2}
Callers == {1, 2}
TTLs == {10, 30}

NoTask == [present |-> FALSE, ExpiresAt |-> 0]
IdleCall == [pc |-> "idle", id |-> 0, consume |-> FALSE, result |-> "none"]

DeletesNever(consume) == FALSE

\* if consume { delete(m.tasks, id) }
Deletes(consume) == consume

\* !task.ExpiresAt.IsZero() && now.After(task.ExpiresAt)
Expired(task, now) == task.ExpiresAt # 0 /\ now > task.ExpiresAt

TickDue == ms.pc = "open" /\ ms.now > 0 /\ ms.now % scrubInterval = 0 /\ ~ms.ticked

MsOnly == UNCHANGED <<rootVars, edVars, facVars, agVars, cls, td, agCanceled, pz, rt, st, cc, xg, sc, fo, sp, pf, sg, rv, ud, ti>>

\* NewManager: empty maps and a running ticker.
InitStore ==
    /\ ChatOff /\ EdOff /\ FacOff /\ AgOff /\ ClsOff /\ TdOff /\ AcOff /\ PzOff /\ RtOff /\ StOff /\ CcOff /\ XgOff /\ ScOff /\ FoOff /\ SpOff /\ PfOff /\ SgOff /\ RvOff /\ UdOff /\ TiOff
    /\ ms = [pc |-> "open", now |-> 0, ticked |-> FALSE,
             tasks |-> [id \in TaskIDs |-> NoTask],
             run |-> [id \in TaskIDs |-> [phase |-> "new", ExpiresAt |-> 0]],
             calls |-> [c \in Callers |-> IdleCall],
             consumed |-> {}]

\* Time passes; a tick that is due is served first.
MsTime ==
    /\ MsOnly
    /\ ms.now < MaxNow
    /\ ~TickDue
    /\ ms' = [ms EXCEPT !.now = @ + TimeStep, !.ticked = FALSE]

\* A worker starts task id: ExpiresAt = started + ttl.
MsStartTask(id, ttl) ==
    /\ MsOnly
    /\ ms.run[id].phase = "new"
    /\ ms' = [ms EXCEPT !.run[id] = [phase |-> "running", ExpiresAt |-> ms.now + ttl]]

\* The worker's agent has returned: m.storeTask(tctx).
MsStoreTask(id) ==
    /\ MsOnly
    /\ ms.run[id].phase = "running"
    /\ ms' = [ms EXCEPT !.run[id].phase = "stored",
                        !.tasks[id] = [present |-> TRUE, ExpiresAt |-> ms.run[id].ExpiresAt]]

\* scrubExpiredLoop, case <-m.ticker.C
MsScrub ==
    /\ MsOnly
    /\ TickDue
    /\ ms' = [ms EXCEPT !.ticked = TRUE,
                        !.tasks = [id \in TaskIDs |->
                                     IF ms.tasks[id].present /\ Expired(ms.tasks[id], ms.now)
                                     THEN NoTask ELSE ms.tasks[id]]]

\* Manager.Close: the scrub goroutine ends.
MsClose ==
    /\ MsOnly
    /\ ms.pc = "open"
    /\ ms' = [ms EXCEPT !.pc = "closed"]

\* GetTaskContextSummary, under the read lock: look the task up, build the
\* summary; return unless the entry is to be deleted.
MsGetRead(c, id, consume) ==
    /\ MsOnly
    /\ ms.calls[c].pc = "idle"
    /\ ms' = [ms EXCEPT !.calls[c] =
                IF ~ms.tasks[id].present
                THEN [pc |-> "returned", id |-> id, consume |-> consume, result |-> "not_found"]
                ELSE IF Deletes(consume)
                THEN [pc |-> "delete", id |-> id, consume |-> consume, result |-> "none"]
                ELSE [pc |-> "returned", id |-> id, consume |-> consume, result |-> "summary"]]

\* GetTaskContextSummary, under the write lock: delete(m.tasks, id); return.
MsGetDelete(c) ==
    /\ MsOnly
    /\ ms.calls[c].pc = "delete"
    /\ ms' = [ms EXCEPT !.calls[c].pc = "returned", !.calls[c].result = "summary",
                        !.tasks[ms.calls[c].id] = NoTask,
                        !.consumed = @ \cup {ms.calls[c].id}]

\* The caller is ready for its next call.
MsNextCall(c) ==
    /\ MsOnly
    /\ ms.calls[c].pc = "returned"
    /\ ms' = [ms EXCEPT !.calls[c] = IdleCall]

NextStore ==
    \/ MsTime
    \/ \E id \in TaskIDs, ttl \in TTLs : MsStartTask(id, ttl)
    \/ \E id \in TaskIDs : MsStoreTask(id)
    \/ MsScrub
    \/ MsClose
    \/ \E c \in Callers, id \in TaskIDs, consume \in BOOLEAN : MsGetRead(c, id, consume)
    \/ \E c \in Callers : MsGetDelete(c)
    \/ \E c \in Callers : MsNextCall(c)

SpecStore == InitStore /\ [][NextStore]_vars

\* --------------- two tasks of one batch calling ApplyUnifiedDiffPatch
\* Workers of runFactoryWithDepth run their agents concurrently, and each
\* agent's apply_unified_diff_patch call runs the engine on the same worktree.
\* Every step below is one or more whole git invocations.
Tasks == {1, 2}

\* The file a task's patch rewrites.
FileOf(t) == IF t = 1 THEN "main.go" ELSE "out.txt"

StartTree == [f \in Files |-> IF f = "main.go" THEN "A" ELSE Absent]

CcOnly == UNCHANGED <<rootVars, ignored, edPc, edLast, facVars, agVars, cls, td, agCanceled, pz, rt, st, ms, xg, sc, fo, sp, pf, sg, rv, ud, ti>>

InitConcurrent ==
    /\ ChatOff /\ FacOff /\ AgOff /\ ClsOff /\ TdOff /\ AcOff /\ PzOff /\ RtOff /\ StOff /\ MsOff /\ XgOff /\ ScOff /\ FoOff /\ SpOff /\ PfOff /\ SgOff /\ RvOff /\ UdOff /\ TiOff
    /\ wt = StartTree /\ ignored = {} /\ index = NoFiles /\ commits = <<>>
    /\ edPc = "ready"
    /\ edLast = [op |-> "none", err |-> "none", before |-> NoFiles, fault |-> "none", ids |-> <<>>]
    /\ cc \in [Tasks -> [pc : {"start"}, new : Contents, verifyMode : {"none", "syntax"},
                         pre : {<<>>}, err : {"none"}]]
    /\ \A t \in Tasks : cc[t].new # StartTree[FileOf(t)]

CcPatch(t) == PatchOf(StartTree, [StartTree EXCEPT ![FileOf(t)] = cc[t].new], FALSE)

\* pre, err := CreateCheckpoint(workTree, "", "editor checkpoint: pre-apply");
\* pre is the hash of the new commit, which stands for the commit and its
\* ancestry whatever happens to the branch afterwards.
CcPre(t) ==
    /\ CcOnly
    /\ cc[t].pc = "start"
    /\ LET res == CreateCheckpoint(Repo, "", "pre-apply", "none") IN
       /\ SetRepo(res.r)
       /\ cc' = [cc EXCEPT ![t].pc = "pre_done", ![t].pre = SubSeq(res.r.commits, 1, res.head)]

\* git apply
CcApply(t) ==
    /\ CcOnly
    /\ cc[t].pc = "pre_done"
    /\ IF GitApplyFails(Repo, CcPatch(t))
       THEN /\ cc' = [cc EXCEPT ![t].pc = "rollback", ![t].err = "apply"]
            /\ UNCHANGED <<wt, index, commits>>
       ELSE /\ SetRepo(GitApply(Repo, CcPatch(t)))
            /\ cc' = [cc EXCEPT ![t].pc = "applied"]

\* runVerification
CcVerify(t) ==
    /\ CcOnly
    /\ cc[t].pc = "applied"
    /\ cc' = IF VerificationFails(Repo, cc[t].verifyMode)
             THEN [cc EXCEPT ![t].pc = "rollback", ![t].err = "verify"]
             ELSE [cc EXCEPT ![t].pc = "verified"]
    /\ UNCHANGED <<wt, index, commits>>

\* post, err := CreateCheckpoint(workTree, "", "editor checkpoint: post-apply")
CcPost(t) ==
    /\ CcOnly
    /\ cc[t].pc = "verified"
    /\ SetRepo(CreateCheckpoint(Repo, "", "post-apply", "none").r)
    /\ cc' = [cc EXCEPT ![t].pc = "done"]

\* _ = rollbackTo(workTree, pre)
CcRollback(t) ==
    /\ CcOnly
    /\ cc[t].pc = "rollback"
    /\ SetRepo(GitClean(GitResetHardTo(Repo, cc[t].pre)))
    /\ cc' = [cc EXCEPT ![t].pc = "done"]

NextConcurrent ==
    \E t \in Tasks : CcPre(t) \/ CcApply(t) \/ CcVerify(t) \/ CcPost(t) \/ CcRollback(t)

SpecConcurrent == InitConcurrent /\ [][NextConcurrent]_vars

\* ------------------- experimental mode and the subagent_factory tool
\* The loops that offer tools to a model: the root loop (depth 0) and the
\* agents of a batch at depth 1 or 2.
Loops == {[kind |-> "root", depth |-> 0]} \cup [kind : {"subagent"}, depth : {1, 2}]

\* toolsList of main, passed unchanged to every RunCompletion of the root loop.
RootToolsList == {"run_command", "ask_user", "subagent_factory", "subagent_context_provider"}

\* toolList of Agent.Run.
SubagentToolsList(experimentalEnabled) ==
    {"run_command", "subagent_context_provider"}
        \cup (IF experimentalEnabled THEN {"subagent_factory"} ELSE {})

ToolsOffered(loop, experimental) ==
    IF loop.kind = "root" THEN RootToolsList ELSE SubagentToolsList(experimental)

FactoryRefusalNone(loop, experimental) == "none"

\* The checks before the batch is started: case "subagent_factory" of the
\* root loop (depth 0), and of executeToolCall.
FactoryRefusal(loop, experimental) ==
    IF ~experimental THEN "experimental_off"
    ELSE IF loop.kind = "subagent" /\ loop.depth >= maxSubagentDepth THEN "depth_limit"
    ELSE "none"

XgOnly == UNCHANGED <<rootVars, edVars, facVars, agVars, cls, td, agCanceled, pz, rt, st, ms, cc, sc, fo, sp, pf, sg, rv, ud, ti>>

InitGate ==
    /\ ChatOff /\ EdOff /\ FacOff /\ AgOff /\ ClsOff /\ TdOff /\ AcOff /\ PzOff /\ RtOff /\ StOff /\ MsOff /\ CcOff /\ ScOff /\ FoOff /\ SpOff /\ PfOff /\ SgOff /\ RvOff /\ UdOff /\ TiOff
    /\ xg = [pc |-> "idle", experimental |-> FALSE, loop |-> [kind |-> "root", depth |-> 0],
             offered |-> {}, offeredWith |-> FALSE, result |-> "none",
             calledWith |-> FALSE, started |-> 0]

\* /subagent_experimental: cfg.ToggleSubagentExperimental
XgToggle ==
    /\ XgOnly
    /\ xg.pc = "idle"
    /\ xg' = [xg EXCEPT !.experimental = ~@]

\* A loop asks for a completion and offers its tools.
XgCompletion(loop) ==
    /\ XgOnly
    /\ xg.pc = "idle"
    /\ xg' = [xg EXCEPT !.pc = "offered", !.loop = loop,
                        !.offered = ToolsOffered(loop, xg.experimental),
                        !.offeredWith = xg.experimental]

\* The model answers with a subagent_factory call, offered or not.
XgFactoryCall ==
    /\ XgOnly
    /\ xg.pc = "offered"
    /\ LET refusal == FactoryRefusal(xg.loop, xg.experimental) IN
       /\ refusal = "none" => xg.started < MaxStarted
       /\ xg' = [xg EXCEPT !.pc = "idle", !.calledWith = xg.experimental,
                           !.result = IF refusal = "none" THEN "report" ELSE refusal,
                           !.started = IF refusal = "none" THEN @ + 1 ELSE @]

\* The model answers without a subagent_factory call.
XgOtherAnswer ==
    /\ XgOnly
    /\ xg.pc = "offered"
    /\ xg' = [xg EXCEPT !.pc = "idle"]

NextGate ==
    \/ XgToggle
    \/ \E loop \in Loops : XgCompletion(loop)
    \/ XgFactoryCall
    \/ XgOtherAnswer

SpecGate == InitGate /\ [][NextGate]_vars

\* ------------------- a batch of three tasks with fixed model behaviour
\* A's model returns text, B's completion outlasts the task's timeout, C's
\* model returns the empty string.
ScTasks == {"A", "B", "C"}

Behaviour(t) == IF t = "A" THEN "text" ELSE IF t = "B" THEN "slow" ELSE "empty"

\* timeout_sec of the batch, in seconds: the scenario's 1, and the default.
ScTimeouts == {1, defaultTimeoutSec}

\* max_concurrency=2 of the batch, as runFactoryWithDepth clamps it.
scMaxConcurrency == ClampConcurrency(2)

\* forceFinalizeNoTools and the branch of Agent.Run that calls it: the run
\* ends with the final text only if the completion succeeded with text that is
\* not blank, and with context.DeadlineExceeded otherwise.
FinalizeResult(behaviour) ==
    IF behaviour = "text" THEN [out |-> <<"a">>, err |-> "nil"]
    ELSE [out |-> <<>>, err |-> "DeadlineExceeded"]

\* RunCompletionOnce and what Agent.Run makes of an answer without tool
\* calls; a completion that outlasts the context fails with its deadline.
CompletionResult(behaviour) ==
    IF behaviour = "slow" THEN [out |-> <<>>, err |-> "DeadlineExceeded"]
    ELSE IF behaviour = "text" THEN [out |-> <<"a">>, err |-> "nil"]
    ELSE [out |-> <<>>, err |-> "nil"]

ScQueued == [phase |-> "queued", status |-> "", code |-> ""]

ScRunning == Cardinality({t \in ScTasks : sc.task[t].phase \in {"check", "finalizing", "completing"}})

ScBucket(status) == {t \in ScTasks : sc.task[t].phase = "done" /\ sc.task[t].status = status}

ScOnly == UNCHANGED <<rootVars, edVars, facVars, agVars, cls, td, agCanceled, pz, rt, st, ms, cc, xg, fo, sp, pf, sg, rv, ud, ti>>

InitScenario ==
    /\ ChatOff /\ EdOff /\ FacOff /\ AgOff /\ ClsOff /\ TdOff /\ AcOff /\ PzOff /\ RtOff /\ StOff /\ MsOff /\ CcOff /\ XgOff /\ FoOff /\ SpOff /\ PfOff /\ SgOff /\ RvOff /\ UdOff /\ TiOff
    /\ sc \in [pc : {"running"}, timeoutSec : ScTimeouts, task : {[t \in ScTasks |-> ScQueued]},
               noError : {{}}, failed : {{}}, unknown : {{}}]

\* sem <- struct{}{} and context.WithTimeout(ctx, timeoutSec) of a worker.
ScAcquire(t) ==
    /\ ScOnly
    /\ sc.pc = "running"
    /\ sc.task[t].phase = "queued"
    /\ ScRunning < scMaxConcurrency
    /\ sc' = [sc EXCEPT !.task[t].phase = "check"]

\* The first iteration of Agent.Run: the whole timeout is still ahead.
ScCheck(t) ==
    /\ ScOnly
    /\ sc.task[t].phase = "check"
    /\ sc' = [sc EXCEPT !.task[t].phase =
                  IF shouldFinalizeNow(TRUE, sc.timeoutSec, finalizeWindow)
                  THEN "finalizing" ELSE "completing"]

ScFinish(t, res) ==
    LET c == ClassifyTask(res.err, res.out)
    IN  sc' = [sc EXCEPT !.task[t] = [phase |-> "done", status |-> c.status, code |-> c.code]]

ScFinalize(t) ==
    /\ ScOnly
    /\ sc.task[t].phase = "finalizing"
    /\ ScFinish(t, FinalizeResult(Behaviour(t)))

ScCompletion(t) ==
    /\ ScOnly
    /\ sc.task[t].phase = "completing"
    /\ ScFinish(t, CompletionResult(Behaviour(t)))

\* wg.Wait and the report's three lists.
ScReport ==
    /\ ScOnly
    /\ sc.pc = "running"
    /\ \A t \in ScTasks : sc.task[t].phase = "done"
    /\ sc' = [sc EXCEPT !.pc = "reported", !.noError = ScBucket(statusNoError),
                        !.failed = ScBucket(statusFailed), !.unknown = ScBucket(statusUnknown)]

NextScenario ==
    \/ \E t \in ScTasks : ScAcquire(t)
    \/ \E t \in ScTasks : ScCheck(t)
    \/ \E t \in ScTasks : ScFinalize(t)
    \/ \E t \in ScTasks : ScCompletion(t)
    \/ ScReport

SpecScenario == InitScenario /\ [][NextScenario]_vars

\* ------------------- the options of a subagent_factory call
maxTimeoutSec == 3600

defaultTTLSeconds == 600

maxTTLSeconds == 86400

\* An option of the arguments object: left out, or a number.
Omitted == [set |-> FALSE, val |-> 0]

Given(values) == [set : {TRUE}, val : values]

RequestedOptions ==
    [maxConcurrency : {Omitted} \cup Given({-1, 0, 1, 2, maxConcurrencyCap, maxConcurrencyCap + 1}),
     timeoutSec : {Omitted} \cup Given({-1, 0, 1, maxTimeoutSec, maxTimeoutSec + 1}),
     ttlSeconds : {Omitted} \cup Given({0, 1, maxTTLSeconds, maxTTLSeconds + 1})]

getInt(v, def) == IF ~v.set THEN def ELSE v.val

ClampTimeoutNoCap(t) == IF t <= 0 THEN defaultTimeoutSec ELSE t

\* timeoutSec as runFactoryWithDepth clamps it.
ClampTimeout(t) ==
    IF t <= 0 THEN defaultTimeoutSec
    ELSE IF t > maxTimeoutSec THEN maxTimeoutSec
    ELSE t

\* ttl as runFactoryWithDepth clamps it.
ClampTTL(t) ==
    IF t <= 0 THEN defaultTTLSeconds
    ELSE IF t > maxTTLSeconds THEN maxTTLSeconds
    ELSE t

NoOptions == [maxConcurrency |-> 0, timeoutSec |-> 0, ttlSeconds |-> 0]

FoOnly == UNCHANGED <<rootVars, edVars, facVars, agVars, cls, td, agCanceled, pz, rt, st, ms, cc, xg, sc, sp, pf, sg, rv, ud, ti>>

InitOptions ==
    /\ ChatOff /\ EdOff /\ FacOff /\ AgOff /\ ClsOff /\ TdOff /\ AcOff /\ PzOff /\ RtOff /\ StOff /\ MsOff /\ CcOff /\ XgOff /\ ScOff /\ SpOff /\ PfOff /\ SgOff /\ RvOff /\ UdOff /\ TiOff
    /\ fo \in [pc : {"raw"}, requested : RequestedOptions, input : {NoOptions}, effective : {NoOptions}]

FoParse ==
    /\ FoOnly
    /\ fo.pc = "raw"
    /\ fo' = [fo EXCEPT !.pc = "parsed",
                        !.input = [maxConcurrency |-> getInt(fo.requested.maxConcurrency, defaultConcurrency),
                                   timeoutSec |-> getInt(fo.requested.timeoutSec, defaultTimeoutSec),
                                   ttlSeconds |-> getInt(fo.requested.ttlSeconds, defaultTTLSeconds)]]

FoClamp ==
    /\ FoOnly
    /\ fo.pc = "parsed"
    /\ fo' = [fo EXCEPT !.pc = "effective",
                        !.effective = [maxConcurrency |-> ClampConcurrency(fo.input.maxConcurrency),
                                       timeoutSec |-> ClampTimeout(fo.input.timeoutSec),
                                       ttlSeconds |-> ClampTTL(fo.input.ttlSeconds)]]

NextOptions ==
    \/ FoParse
    \/ FoClamp

SpecOptions == InitOptions /\ [][NextOptions]_vars

\* ------------------- splitTasks
\* Strings are sequences of characters.
DefaultSplitSymbol == <<"-", "-", "-", "T", "A", "S", "K", "-", "-", "-">>

\* The segments mega prompts are put together from: a word, blanks, both line
\* ends, a dash and the default split symbol.
Segments == {<<"a">>, <<" ">>, <<"\r", "\n">>, <<"\n">>, <<"-">>, DefaultSplitSymbol}

RECURSIVE Concat(_)
Concat(segs) == IF segs = <<>> THEN <<>> ELSE Head(segs) \o Concat(Tail(segs))

\* "a\n---TASK---\nb\n---TASK---\n\nc", the input of TestSplitTasksByDefaultSymbol
\* with one-letter tasks.
TestMegaPrompt ==
    <<"a", "\n">> \o DefaultSplitSymbol \o <<"\n", "b", "\n">> \o DefaultSplitSymbol \o <<"\n", "\n", "c">>

MegaPrompts ==
    {Concat(segs) : segs \in UNION {[1..n -> Segments] : n \in 0..MaxSegments}} \cup {TestMegaPrompt}

SplitSymbols == {<<>>, <<"-">>, <<" ", "-", " ">>, <<"-", "\n", "-">>}

\* Regular expressions: none, blank, one that does not compile, a dash with
\* blanks around it, a dash, a run of dashes.
SplitRegexes == {<<>>, <<" ">>, <<"(">>, <<" ", "-", " ">>, <<"-">>, <<"-", "+">>}

ReplaceCRLFNone(str) == str

\* strings.ReplaceAll(raw, "\r\n", "\n")
RECURSIVE ReplaceCRLF(_)
ReplaceCRLF(str) ==
    IF str = <<>> THEN <<>>
    ELSE IF Len(str) >= 2 /\ str[1] = "\r" /\ str[2] = "\n"
    THEN <<"\n">> \o ReplaceCRLF(SubSeq(str, 3, Len(str)))
    ELSE <<Head(str)>> \o ReplaceCRLF(Tail(str))

HasPrefix(str, p) == Len(p) <= Len(str) /\ SubSeq(str, 1, Len(p)) = p

\* strings.Split(str, sep) for a separator that is not empty; cur is the
\* piece being read.
RECURSIVE StringsSplit(_, _, _)
StringsSplit(str, sep, cur) ==
    IF str = <<>> THEN <<cur>>
    ELSE IF HasPrefix(str, sep)
    THEN <<cur>> \o StringsSplit(SubSeq(str, Len(sep) + 1, Len(str)), sep, <<>>)
    ELSE StringsSplit(Tail(str), sep, Append(cur, Head(str)))

\* regexp.Compile
CompileFails(re) == re = <<"(">>

RECURSIVE DashRun(_)
DashRun(str) == IF str # <<>> /\ Head(str) = "-" THEN 1 + DashRun(Tail(str)) ELSE 0

\* Length of the leftmost-first match of re at the start of str, 0 if none.
MatchLen(re, str) ==
    IF re = <<"-">> THEN (IF str # <<>> /\ Head(str) = "-" THEN 1 ELSE 0)
    ELSE DashRun(str)

\* re.Split(str, -1) for an expression that matches no empty string.
RECURSIVE RegexpSplit(_, _, _)
RegexpSplit(re, str, cur) ==
    IF str = <<>> THEN <<cur>>
    ELSE IF MatchLen(re, str) > 0
    THEN <<cur>> \o RegexpSplit(re, SubSeq(str, MatchLen(re, str) + 1, Len(str)), <<>>)
    ELSE RegexpSplit(re, Tail(str), Append(cur, Head(str)))

KeepsPieceAlways(t) == TRUE

KeepsPiece(t) == t # <<>>

\* The loop over parts: trim, keep what is not empty.
RECURSIVE TrimmedPieces(_)
TrimmedPieces(parts) ==
    IF parts = <<>> THEN <<>>
    ELSE (IF KeepsPiece(TrimSpace(Head(parts))) THEN <<TrimSpace(Head(parts))>> ELSE <<>>)
             \o TrimmedPieces(Tail(parts))

splitTasks(megaPrompt, symbol, regex) ==
    LET raw == ReplaceCRLF(megaPrompt)
        splitRegex == TrimSpace(regex)
        splitSymbol == IF TrimSpace(symbol) = <<>> THEN DefaultSplitSymbol ELSE TrimSpace(symbol)
    IN  IF splitRegex # <<>> /\ CompileFails(splitRegex)
        THEN [tasks |-> <<>>, parts |-> <<>>, err |-> "invalid split_regex"]
        ELSE LET parts == IF splitRegex # <<>> THEN RegexpSplit(splitRegex, raw, <<>>)
                          ELSE StringsSplit(raw, splitSymbol, <<>>)
                 out == TrimmedPieces(parts)
             IN  [tasks |-> IF out = <<>> /\ TrimSpace(raw) # <<>> THEN <<TrimSpace(raw)>> ELSE out,
                  parts |-> parts, err |-> "nil"]

SpOnly == UNCHANGED <<rootVars, edVars, facVars, agVars, cls, td, agCanceled, pz, rt, st, ms, cc, xg, sc, fo, pf, sg, rv, ud, ti>>

InitSplit ==
    /\ ChatOff /\ EdOff /\ FacOff /\ AgOff /\ ClsOff /\ TdOff /\ AcOff /\ PzOff /\ RtOff /\ StOff /\ MsOff /\ CcOff /\ XgOff /\ ScOff /\ FoOff /\ PfOff /\ SgOff /\ RvOff /\ UdOff /\ TiOff
    /\ sp \in [pc : {"called"}, megaPrompt : MegaPrompts, splitSymbol : SplitSymbols,
               splitRegex : SplitRegexes, tasks : {<<>>}, parts : {<<>>}, err : {"nil"}]

SpSplit ==
    /\ SpOnly
    /\ sp.pc = "called"
    /\ LET r == splitTasks(sp.megaPrompt, sp.splitSymbol, sp.splitRegex)
       IN  sp' = [sp EXCEPT !.pc = "returned", !.tasks = r.tasks, !.parts = r.parts, !.err = r.err]

NextSplit == SpSplit

SpecSplit == InitSplit /\ [][NextSplit]_vars

\* ------------------- patch_file
\* A line is the n-th line of the file at the start of the call, or the n-th
\* line of text a patch brings.
FileLine(n) == [src |-> "file", n |-> n]

PatchLine(n) == [src |-> "patch", n |-> n]

\* originalLines: a file of n lines.
OriginalLines(n) == [i \in 1..n |-> FileLine(i)]

\* The target of an operation line: "0", "00" or a line number.
Targets == {[kind |-> "0", n |-> 0], [kind |-> "00", n |-> 0]} \cup [kind : {"line"}, n : 1..MaxLines]

Operators == {"--", "++", "<<", ">>"}

\* The text of an operation line, split at its "\n" marks.
Texts == {<<PatchLine(1)>>, <<PatchLine(1), PatchLine(2)>>}

PatchOps == [target : Targets, operator : Operators, lines : Texts]

Patches == UNION {[1..n -> PatchOps] : n \in 1..MaxOps}

NoOperation == [type |-> "none", lines |-> <<>>]

\* The operation a patch line stores under its target.
Operation(target, operator, lines) ==
    IF operator = "--" THEN [type |-> "delete", lines |-> <<>>]
    ELSE IF operator = "++" THEN
        (IF target.kind = "0" THEN [type |-> "insert_before", lines |-> lines]
         ELSE IF target.kind = "00" THEN [type |-> "insert_after", lines |-> lines]
         ELSE [type |-> "replace", lines |-> lines])
    ELSE IF operator = "<<" THEN [type |-> "insert_before", lines |-> lines]
    ELSE [type |-> "insert_after", lines |-> lines]

\* ops after the scan of the patch: one operation per target, a later line
\* for the same target overwrites an earlier one.
RECURSIVE ParsePatch(_, _)
ParsePatch(patch, ops) ==
    IF patch = <<>> THEN ops
    ELSE LET p == Head(patch)
         IN  ParsePatch(Tail(patch),
                        [ops EXCEPT ![p.target] = Operation(p.target, p.operator, p.lines)])

\* What the loop over the original lines appends for line i: the branches are
\* delete, replace and insert_after, a line with insert_before is appended
\* like a line without operation.
ReconstructLine(ops, original, i) ==
    LET op == ops[[kind |-> "line", n |-> i]]
    IN  (IF op.type = "delete" THEN <<>>
         ELSE IF op.type = "replace" THEN op.lines
         ELSE <<original[i]>>)
        \o (IF op.type = "insert_after" THEN op.lines ELSE <<>>)

RECURSIVE ReconstructFrom(_, _, _)
ReconstructFrom(ops, original, i) ==
    IF i > Len(original) THEN <<>>
    ELSE ReconstructLine(ops, original, i) \o ReconstructFrom(ops, original, i + 1)

ApplyFilePatch(original, patch) ==
    LET ops == ParsePatch(patch, [t \in Targets |-> NoOperation])
        first == ops[[kind |-> "0", n |-> 0]]
        last == ops[[kind |-> "00", n |-> 0]]
    IN  (IF first.type = "insert_before" THEN first.lines ELSE <<>>)
        \o ReconstructFrom(ops, original, 1)
        \o (IF last.type = "insert_after" THEN last.lines ELSE <<>>)

PfOnly == UNCHANGED <<rootVars, edVars, facVars, agVars, cls, td, agCanceled, pz, rt, st, ms, cc, xg, sc, fo, sp, sg, rv, ud, ti>>

InitPatchFile ==
    /\ ChatOff /\ EdOff /\ FacOff /\ AgOff /\ ClsOff /\ TdOff /\ AcOff /\ PzOff /\ RtOff /\ StOff /\ MsOff /\ CcOff /\ XgOff /\ ScOff /\ FoOff /\ SpOff /\ SgOff /\ RvOff /\ UdOff /\ TiOff
    /\ pf \in [pc : {"called"}, original : {OriginalLines(n) : n \in 0..MaxLines},
               patch : Patches, written : {<<>>}]

PfApply ==
    /\ PfOnly
    /\ pf.pc = "called"
    /\ pf' = [pf EXCEPT !.pc = "written", !.written = ApplyFilePatch(pf.original, pf.patch)]

NextPatchFile == PfApply

SpecPatchFile == InitPatchFile /\ [][NextPatchFile]_vars

\* ------------------- signals to a process tree
\* Processes are 1..n, 1 is the root of the tree; parent 0 stands for a
\* process outside the tree (init after the parent died). A process that has
\* died is gone from the table.
Procs == 1..MaxProcs

\* The trees of n processes: every process but the root has a parent with a
\* smaller pid.
TreesOf(n) ==
    {f \in [Procs -> 0..MaxProcs] :
        /\ f[1] = 0
        /\ \A c \in 2..MaxProcs : IF c <= n THEN f[c] \in 1..(c - 1) ELSE f[c] = 0}

\* The pid argument: negative, zero, the root of the tree.
PidArgs == {-1, 0, 1}

SignalArgs == {"", "TERM", "KILL", "BOGUS"}

\* SignalToNumber fails.
UnknownSignal(signal) == signal \notin {"TERM", "KILL"}

RECURSIVE SortedSeq(_)
SortedSeq(S) ==
    IF S = {} THEN <<>>
    ELSE LET m == CHOOSE x \in S : \A y \in S : x <= y
         IN  <<m>> \o SortedSeq(S \ {m})

\* GetChildPIDsRecursive: pgrep -P for the children, each followed by its own
\* descendants; walks the list of children kids.
RECURSIVE ChildWalk(_, _, _)
ChildWalk(kids, alive, parent) ==
    IF kids = <<>> THEN <<>>
    ELSE <<Head(kids)>>
         \o ChildWalk(SortedSeq({c \in alive : parent[c] = Head(kids)}), alive, parent)
         \o ChildWalk(Tail(kids), alive, parent)

GetChildPIDsRecursive(pid, alive, parent) ==
    ChildWalk(SortedSeq({c \in alive : parent[c] = pid}), alive, parent)

Reversed(q) == [i \in 1..Len(q) |-> q[Len(q) - i + 1]]

\* ProcessTreeExists: false if the root does not answer signal 0, otherwise
\* true exactly if one of its descendants answers signal 0.
ProcessTreeExists(rootPID, alive, parent) ==
    IF rootPID \notin alive THEN FALSE
    ELSE \E c \in Range(GetChildPIDsRecursive(rootPID, alive, parent)) : c \in alive

\* The start of KillProcessTree(pid, signal): the checks, then the list of
\* processes to signal, descendants in reverse order and the root last.
KillProcessTree(s, signal, phase) ==
    IF s.pid <= 0 \/ UnknownSignal(signal)
    THEN [s EXCEPT !.pc = "returned", !.result = "error"]
    ELSE [s EXCEPT !.pc = "signalling", !.phase = phase, !.sending = signal,
                   !.queue = Append(Reversed(GetChildPIDsRecursive(s.pid, s.alive, s.parent)), s.pid)]

SgOnly == UNCHANGED <<rootVars, edVars, facVars, agVars, cls, td, agCanceled, pz, rt, st, ms, cc, xg, sc, fo, sp, pf, rv, ud, ti>>

InitSignal ==
    /\ ChatOff /\ EdOff /\ FacOff /\ AgOff /\ ClsOff /\ TdOff /\ AcOff /\ PzOff /\ RtOff /\ StOff /\ MsOff /\ CcOff /\ XgOff /\ ScOff /\ FoOff /\ SpOff /\ PfOff /\ RvOff /\ UdOff /\ TiOff
    /\ \E n \in 1..MaxProcs : \E f \in TreesOf(n), ig \in SUBSET (1..n) :
        sg \in [pc : {"called"}, pid : PidArgs, signal : SignalArgs, grace : {0, 1}, force : BOOLEAN,
                parent : {f}, parentAtCall : {f}, tree : {1..n}, alive : {1..n}, ignores : {ig}, dying : {{}},
                phase : {"none"}, sending : {""}, queue : {<<>>}, signals : {<<>>},
                checks : {0}, atDeadline : {{}}, result : {"none"}]

\* KillProcessTreeWithTimeout up to the first KillProcessTree.
SgEnter ==
    /\ SgOnly
    /\ sg.pc = "called"
    /\ sg' = IF sg.force THEN KillProcessTree(sg, "KILL", "kill")
             ELSE KillProcessTree(sg, IF sg.signal = "" THEN "TERM" ELSE sg.signal, "graceful")

\* SendSignal to the next process of the list; a process that is gone is
\* skipped without error.
SgSend ==
    /\ SgOnly
    /\ sg.pc = "signalling" /\ sg.queue # <<>>
    /\ LET c == Head(sg.queue)
       IN  sg' = [sg EXCEPT !.queue = Tail(@),
                    !.signals = IF c \in sg.alive THEN Append(@, [pid |-> c, sig |-> sg.sending]) ELSE @,
                    !.dying = IF c \in sg.alive /\ (sg.sending = "KILL" \/ c \notin sg.ignores)
                              THEN @ \cup {c} ELSE @]

\* KillProcessTree returned nil.
SgSignalled ==
    /\ SgOnly
    /\ sg.pc = "signalling" /\ sg.queue = <<>>
    /\ sg' = IF sg.phase = "graceful" /\ sg.grace > 0
             THEN [sg EXCEPT !.pc = "waiting"]
             ELSE [sg EXCEPT !.pc = "returned", !.result = "ok"]

\* One round of the wait loop before the deadline.
SgCheck ==
    /\ SgOnly
    /\ sg.pc = "waiting" /\ sg.checks < MaxChecks
    /\ sg' = IF ProcessTreeExists(sg.pid, sg.alive, sg.parent)
             THEN [sg EXCEPT !.checks = @ + 1]
             ELSE [sg EXCEPT !.pc = "returned", !.result = "ok"]

\* The deadline has passed: KillProcessTree(pid, "KILL").
SgDeadline ==
    /\ SgOnly
    /\ sg.pc = "waiting" /\ sg.checks >= 1
    /\ sg' = KillProcessTree([sg EXCEPT !.atDeadline = sg.alive], "KILL", "kill")

\* A process that got a signal it does not survive dies; its children are
\* left to init.
SgDie(c) ==
    /\ SgOnly
    /\ c \in sg.dying /\ c \in sg.alive
    /\ sg' = [sg EXCEPT !.alive = @ \ {c}, !.dying = @ \ {c},
                        !.parent = [d \in Procs |-> IF sg.parent[d] = c THEN 0 ELSE sg.parent[d]]]

NextSignal ==
    \/ SgEnter
    \/ SgSend
    \/ SgSignalled
    \/ SgCheck
    \/ SgDeadline
    \/ \E c \in Procs : SgDie(c)

SpecSignal == InitSignal /\ [][NextSignal]_vars

\* ------------------- the checks at the start of runFactoryWithDepth
\* Mega prompts: empty, blank, blank lines, one task, two tasks, a dash.
RvPrompts == {<<>>, <<" ">>, <<"\r", "\n", " ">>, <<"a">>, <<"a", "-", "a">>, <<"-">>}

RvRegexes == {<<>>, <<"(">>, <<"-">>}

\* Model names: none, blank, a name.
RvModels == {<<>>, <<" ">>, <<"m">>}

ModelIsEmptyNever(model, defaultModel) == FALSE

\* model after both fallbacks is empty.
ModelIsEmpty(model, defaultModel) ==
    (IF TrimSpace(model) = <<>> THEN TrimSpace(defaultModel) ELSE TrimSpace(model)) = <<>>

\* The error of the checks before anything is created, "nil" if they pass.
FactoryInputError(in) ==
    IF in.clientNil THEN "api client is required"
    ELSE IF TrimSpace(in.megaPrompt) = <<>> THEN "mega_prompt is required"
    ELSE LET split == splitTasks(in.megaPrompt, <<>>, in.splitRegex)
         IN  IF split.err # "nil" THEN split.err
             ELSE IF split.tasks = <<>> THEN "no tasks were found after splitting"
             ELSE IF ModelIsEmpty(in.model, in.defaultModel) THEN "model is empty"
             ELSE "nil"

RvInputs ==
    [clientNil : BOOLEAN, megaPrompt : RvPrompts, splitRegex : RvRegexes,
     model : RvModels, defaultModel : {<<>>, <<"m">>}]

\* What exists outside the call: the output directory, the files in it (task
\* files by task number, 0 for report.json), the
\* worker goroutines ever started, the manager's two maps.
Nothing == [dir |-> FALSE, files |-> {}, spawned |-> 0, tasks |-> {}, reports |-> {}]

\* The manager is new, or holds a task and a report of an earlier batch.
RvOutside == {Nothing, [Nothing EXCEPT !.tasks = {0}, !.reports = {0}]}

RvOnly == UNCHANGED <<rootVars, edVars, facVars, agVars, cls, td, agCanceled, pz, rt, st, ms, cc, xg, sc, fo, sp, pf, sg, ud, ti>>

InitReject ==
    /\ ChatOff /\ EdOff /\ FacOff /\ AgOff /\ ClsOff /\ TdOff /\ AcOff /\ PzOff /\ RtOff /\ StOff /\ MsOff /\ CcOff /\ XgOff /\ ScOff /\ FoOff /\ SpOff /\ PfOff /\ SgOff /\ UdOff /\ TiOff
    /\ rv \in [pc : {"called"}, in : RvInputs, n : {0}, finished : {0}, err : {"nil"},
               before : RvOutside, now : RvOutside]
    /\ rv.now = rv.before

\* The checks, up to "model is empty".
RvValidate ==
    /\ RvOnly
    /\ rv.pc = "called"
    /\ LET e == FactoryInputError(rv.in)
       IN  rv' = IF e # "nil" THEN [rv EXCEPT !.pc = "returned", !.err = e]
                 ELSE [rv EXCEPT !.pc = "checked",
                                 !.n = Len(splitTasks(rv.in.megaPrompt, <<>>, rv.in.splitRegex).tasks)]

\* os.MkdirAll(baseOutputDir)
RvMkdir(fails) ==
    /\ RvOnly
    /\ rv.pc = "checked"
    /\ rv' = IF fails THEN [rv EXCEPT !.pc = "returned", !.err = "failed to create output dir"]
             ELSE [rv EXCEPT !.pc = "spawning", !.now.dir = TRUE]

\* go func(i, prompt) for the next task.
RvSpawn ==
    /\ RvOnly
    /\ rv.pc = "spawning" /\ rv.now.spawned < rv.n
    /\ rv' = [rv EXCEPT !.now.spawned = @ + 1]

\* A worker ends: its output file, then storeTask.
RvWorkerEnds ==
    /\ RvOnly
    /\ rv.pc = "spawning" /\ rv.finished < rv.now.spawned
    /\ rv' = [rv EXCEPT !.finished = @ + 1,
                        !.now.files = @ \cup {rv.finished + 1},
                        !.now.tasks = @ \cup {rv.finished + 1}]

\* wg.Wait, report.json, m.reports[batchID] = report.
RvReport ==
    /\ RvOnly
    /\ rv.pc = "spawning" /\ rv.now.spawned = rv.n /\ rv.finished = rv.n
    /\ rv' = [rv EXCEPT !.pc = "returned", !.now.files = @ \cup {0},
                        !.now.reports = @ \cup {1}]

NextReject ==
    \/ RvValidate
    \/ \E fails \in BOOLEAN : RvMkdir(fails)
    \/ RvSpawn
    \/ RvWorkerEnds
    \/ RvReport

SpecReject == InitReject /\ [][NextReject]_vars

\* ------------------- the apply_unified_diff_patch tool of the root loop
\* Texts are sequences of fragments.
PatchFileHint == "Hint: unified diff parsing failed. Re-read target files and use patch_file for this edit."

\* The arguments of a call: not JSON, without work_tree, without patch, complete.
DiffArgKinds == {"invalid", "no_work_tree", "no_patch", "complete"}

\* err.Error() of ApplyUnifiedDiffPatch.
DiffErrorText(err) ==
    CASE err = "pre_checkpoint" -> <<"failed to create pre-apply checkpoint: ", "git output">>
      [] err = "apply" -> <<"failed to apply unified diff (rolled back): ", "git output">>
      [] err = "verify" -> <<"verification failed and changes were rolled back: ", "verification output">>
      [] OTHER -> <<"failed to create post-apply checkpoint; rolled back: ", "git output">>

\* toolResponse after the call of the engine.
DiffToolResponse(err) ==
    IF err # "none" THEN <<"Error: ">> \o DiffErrorText(err)
    ELSE <<"Patch applied successfully. Checkpoints: pre=", "post=">>

\* toolResponse when the arguments stop the case before the engine.
DiffArgsResponse(kind) ==
    CASE kind = "invalid" -> <<"Error: invalid arguments for apply_unified_diff_patch: ", "json error">>
      [] kind = "no_work_tree" -> <<"Error: apply_unified_diff_patch requires a non-empty 'work_tree' argument.">>
      [] OTHER -> <<"Error: apply_unified_diff_patch requires a non-empty 'patch' argument.">>

UdOnly == UNCHANGED <<rootVars, ignored, edPc, edLast, facVars, agVars, cls, td, agCanceled, pz, rt, st, ms, cc, xg, sc, fo, sp, pf, sg, rv, ti>>

InitDiffTool ==
    /\ ChatOff /\ FacOff /\ AgOff /\ ClsOff /\ TdOff /\ AcOff /\ PzOff /\ RtOff /\ StOff /\ MsOff /\ CcOff /\ XgOff /\ ScOff /\ FoOff /\ SpOff /\ PfOff /\ SgOff /\ RvOff /\ TiOff
    /\ wt \in Worktrees /\ ignored = {} /\ index = NoFiles /\ commits = <<>>
    /\ edPc = "ready"
    /\ edLast = [op |-> "none", err |-> "none", before |-> NoFiles, fault |-> "none", ids |-> <<>>]
    /\ ud = [pc |-> "on", calls |-> <<>>, messages |-> <<>>]

\* case "apply_unified_diff_patch" and history.AddToolResponse for the call.
UdToolCall(kind, patch, verifyMode) ==
    /\ UdOnly
    /\ Len(ud.calls) < MaxDiffCalls
    /\ IF kind # "complete"
       THEN /\ ud' = [ud EXCEPT !.calls = Append(@, [kind |-> kind, err |-> "none"]),
                                !.messages = Append(@, DiffArgsResponse(kind))]
            /\ UNCHANGED <<wt, index, commits>>
       ELSE LET res == ApplyUnifiedDiffPatch(Repo, patch, verifyMode, "none") IN
            /\ SetRepo(res.r)
            /\ ud' = [ud EXCEPT !.calls = Append(@, [kind |-> kind, err |-> res.err]),
                                !.messages = Append(@, DiffToolResponse(res.err))]

NextDiffTool ==
    \E kind \in DiffArgKinds, new \in Worktrees, stale \in BOOLEAN, m \in {"none", "syntax"} :
        UdToolCall(kind, PatchOf(wt, new, stale), m)

SpecDiffTool == InitDiffTool /\ [][NextDiffTool]_vars

\* ------------------- the TaskIDs of runFactoryWithDepth (manager.go:184-273)
\* The characters shortBatchID keeps of the last part of the batch ID.
shortBatchIDLen == 6

\* sanitizeName(input.TaskListName) of the batches.
TaskListNames == {"docs", "tests"}

\* What the clock advances by between two readings, in nanoseconds: the next
\* nanosecond, and what is left of a millisecond.
ClockSteps == {1, 10 ^ shortBatchIDLen - 1}

RECURSIVE DecimalLen(_)
\* len(strconv.Itoa(v)) for v >= 0.
DecimalLen(v) == IF v < 10 THEN 1 ELSE 1 + DecimalLen(v \div 10)

\* shortBatchID("batch_<nanos>"): the decimal string of nanos, cut to its last
\* shortBatchIDLen characters. A string of digits is its length and its value.
shortBatchID(nanos) ==
    IF DecimalLen(nanos) > shortBatchIDLen
    THEN [len |-> shortBatchIDLen, value |-> nanos % (10 ^ shortBatchIDLen)]
    ELSE [len |-> DecimalLen(nanos), value |-> nanos]

\* fmt.Sprintf("%03d_%s_%s", i+1, taskListName, suffix) for the task at
\* position num = i+1: the three parts can be read back from the string.
TaskID(num, taskListName, nanos) ==
    [num |-> num, taskListName |-> taskListName, suffix |-> shortBatchID(nanos)]

\* The TaskID of task num of batch b.
TaskIDOf(b, num) == TaskID(num, ti.batches[b].taskListName, ti.batches[b].nanos)

\* The tasks of the started batches.
TiTasks == {t \in (1..Len(ti.batches)) \X (1..MaxTasks) : t[2] <= ti.batches[t[1]].n}

TiOnly == UNCHANGED <<rootVars, edVars, facVars, agVars, cls, td, agCanceled, pz, rt, st, ms, cc, xg, sc, fo, sp, pf, sg, rv, ud>>

InitTaskID ==
    /\ ChatOff /\ EdOff /\ FacOff /\ AgOff /\ ClsOff /\ TdOff /\ AcOff /\ PzOff /\ RtOff /\ StOff /\ MsOff /\ CcOff /\ XgOff /\ ScOff /\ FoOff /\ SpOff /\ PfOff /\ SgOff /\ RvOff /\ UdOff
    /\ ti = [pc |-> "on", now |-> 10 ^ shortBatchIDLen, ticks |-> 0, batches |-> <<>>,
             tasks |-> {}, stored |-> {}, overwritten |-> {}]

\* The wall clock advances.
TiTick(d) ==
    /\ TiOnly
    /\ ti.pc = "on"
    /\ ti.ticks < MaxTicks
    /\ ti' = [ti EXCEPT !.now = @ + d, !.ticks = @ + 1]

\* runFactoryWithDepth reads the clock for its batchID: the root's call
\* (depth 1) or the call of a worker of batch parent.
TiStartBatch(taskListName, n, parent) ==
    /\ TiOnly
    /\ ti.pc = "on"
    /\ Len(ti.batches) < MaxStarts
    /\ parent # 0 => ~DepthLimitReached(ti.batches[parent].depth)
    /\ ti' = [ti EXCEPT !.batches = Append(@, [taskListName |-> taskListName, nanos |-> ti.now, n |-> n,
                                               depth |-> IF parent = 0 THEN 1
                                                         ELSE ti.batches[parent].depth + 1])]

\* m.storeTask(tctx) of worker num of batch b: m.tasks[task.TaskID] = task.
TiStoreTask(b, num) ==
    /\ TiOnly
    /\ ti.pc = "on"
    /\ <<b, num>> \in TiTasks \ ti.stored
    /\ LET id == TaskIDOf(b, num)
           old == {e \in ti.tasks : e.id = id}
       IN  ti' = [ti EXCEPT !.tasks = (@ \ old) \cup {[id |-> id, task |-> <<b, num>>]},
                            !.stored = @ \cup {<<b, num>>},
                            !.overwritten = @ \cup {e.task : e \in old}]

NextTaskID ==
    \/ \E d \in ClockSteps : TiTick(d)
    \/ \E taskListName \in TaskListNames, n \in 1..MaxTasks, parent \in 0..Len(ti.batches) :
          TiStartBatch(taskListName, n, parent)
    \/ \E b \in 1..Len(ti.batches), num \in 1..MaxTasks : TiStoreTask(b, num)

SpecTaskID == InitTaskID /\ [][NextTaskID]_vars

\* ------------------------------------------------------------------ claims

RECURSIVE IsSubseq(_, _)
\* v can be obtained from h by deleting elements (the order is kept).
IsSubseq(v, h) ==
    IF Len(v) = 0 THEN TRUE
    ELSE IF Len(h) = 0 THEN FALSE
    ELSE IF Head(v) = Head(h) THEN IsSubseq(Tail(v), Tail(h))
    ELSE IsSubseq(v, Tail(h))

\* Every tool message of v answers a tool call of an earlier assistant message of v.
ToolsMatched(v) ==
    \A i \in DOMAIN v :
        v[i].role = "tool" =>
            \E j \in 1..(i - 1) :
                /\ v[j].role = "assistant"
                /\ v[i].ToolCallID \in Range(v[j].ToolCalls)

\* C1: for every history H, every tool message of the API-safe view V carries
\* the ID of a tool call of an assistant message earlier in V, and V keeps the
\* relative order of H's messages.
C1_ApiSafeView ==
    lastView.made =>
        /\ ToolsMatched(lastView.clean)
        /\ IsSubseq(lastView.clean, lastView.of)

\* C1 witness: a view that dropped an orphan tool message and admitted a
\* matched one.
C1_Witness ==
    /\ lastView.made
    /\ lastView.changed
    /\ \E i \in DOMAIN lastView.clean : lastView.clean[i].role = "tool"

\* Each tool call of each assistant message of msgs is answered by exactly one
\* later tool message, placed before the next user or assistant message.
PairingOK(msgs) ==
    \A i \in DOMAIN msgs :
        msgs[i].role = "assistant" =>
            \A c \in DOMAIN msgs[i].ToolCalls :
                LET id == msgs[i].ToolCalls[c]
                    answers == {t \in (i + 1)..Len(msgs) :
                                   msgs[t].role = "tool" /\ msgs[t].ToolCallID = id}
                IN /\ Cardinality(answers) = 1
                   /\ \A t \in answers :
                          \A u \in (i + 1)..(t - 1) :
                              msgs[u].role \notin {"user", "assistant"}

\* C2: every message sequence the root loop sends to the completion service
\* keeps tool calls and tool responses paired, whatever pauses, resumes and
\* cancellations happened in earlier turns.
C2_PairingPreserved == PairingOK(sent)

C3_ErrorLeavesWorktree ==
    (edLast.op = "apply" /\ edLast.err # "none" /\ edLast.fault \notin {"reset", "clean"})
        => wt = edLast.before

Reported == {b \in 1..Len(batches) : batches[b].phase = "reported"}

\* The three lists of a report are pairwise disjoint and add up to TotalStarted.
ListsPartition(r) ==
    /\ r.noError \cap r.failed = {}
    /\ r.noError \cap r.unknown = {}
    /\ r.failed \cap r.unknown = {}
    /\ Cardinality(r.noError) + Cardinality(r.failed) + Cardinality(r.unknown) = r.total

\* C4: in the report of every finished batch of N tasks the lists NoError,
\* Failed and Unknown are pairwise disjoint and their sizes add up to
\* TotalStarted, which equals N, also when the parent context is canceled.
C4_ReportCountsAllTasks ==
    \A b \in Reported :
        ListsPartition(batches[b].report) /\ batches[b].report.total = batches[b].n

\* C4 (amended): the lists are pairwise disjoint and add up to TotalStarted,
\* which is the number of workers spawned: N when the spawn loop ran to its
\* end, fewer than N when the loop found the context canceled and stopped.
C4_ReportCountsStartedTasks ==
    \A b \in Reported :
        /\ ListsPartition(batches[b].report)
        /\ batches[b].report.total = batches[b].next
        /\ batches[b].report.total <= batches[b].n
        /\ batches[b].broke <=> batches[b].report.total < batches[b].n
        /\ batches[b].broke => facCanceled

\* C4 witness: a batch of two tasks reported one started task after the
\* context was canceled during spawning.
C4_Witness ==
    \E b \in Reported :
        batches[b].n = 2 /\ batches[b].report.total = 1 /\ batches[b].broke

\* C5: in every batch the workers inside agent.Run never outnumber the
\* batch's max_concurrency; a worker outside the semaphore is queued or done.
C5_ConcurrencyBounded ==
    \A b \in 1..Len(batches) : Cardinality(Holding(b)) <= batches[b].maxConc

\* C5 witness: with max_concurrency 1 a worker runs while another waits for
\* the slot.
C5_Witness ==
    \E b \in 1..Len(batches) :
        /\ batches[b].maxConc = 1
        /\ Cardinality(Holding(b)) = 1
        /\ \E w \in WorkersOf(b) : workers[w].phase = "queued"

\* C6: no batch, hence no agent, has a depth above 2; a batch started by an
\* agent is one level below that agent, which is below depth 2; and a
\* subagent_factory call by an agent at depth 2 or more ends in an error.
C6_DepthAtMost2 ==
    /\ \A b \in 1..Len(batches) :
          /\ batches[b].depth <= 2
          /\ batches[b].owner # 0 =>
                /\ batches[workers[batches[b].owner].batch].depth < 2
                /\ batches[b].depth = batches[workers[batches[b].owner].batch].depth + 1
    /\ facLast.depth >= 2 => facLast.result \in {"disabled", "depth limit"}

\* C6 witness: with experimental mode on, an agent at depth 2 called
\* subagent_factory and got the depth-limit error.
C6_Witness ==
    /\ facExperimental
    /\ facLast = [depth |-> 2, result |-> "depth limit"]
    /\ \A b \in 1..Len(batches) : batches[b].depth <= 2

\* C7: a subagent loop makes at most 16 tool-enabled completions; the 16th
\* iteration is the last, and after it the loop returns the accumulated
\* progress with the error "exceeded maximum tool iterations".
C7_AtMost16Completions ==
    /\ agCompletions <= 16
    /\ agI <= 16
    /\ (agPc = "check" /\ agI = 16) => ENABLED AgExceeded /\ ~ENABLED AgCheck
    /\ agResult.err = "exceeded maximum tool iterations"
         => agCompletions = 16 /\ agResult.out = "progress"

\* C7 witness: the loop has returned that error after 16 completions.
C7_Witness ==
    /\ agPc = "done"
    /\ agResult.err = "exceeded maximum tool iterations"
    /\ agCompletions = 16

\* C9: at the top of an iteration the finalize path is taken iff the context
\* has a deadline that is at most 20 s away; once taken, exactly one no-tools
\* completion is made, with a time limit of at most 8 s, and the loop returns
\* without another iteration or tool call.
C9_FinalizeWindow ==
    /\ agCheck.made => (agCheck.fin <=> (agHasDeadline /\ agCheck.rem <= 20))
    /\ (agCheck.made /\ agCheck.fin) => agPc \in {"finalize", "finalizing", "done"}
    /\ agFinal.taken => (agCheck.fin /\ agFinalCompletions = 1 /\ agFinal.limit <= 8)
    /\ (agCheck.fin /\ agPc \in {"finalizing", "done"}) => agFinal.taken
    /\ ~agCheck.fin => agFinalCompletions = 0

\* C9 witness: after a tool iteration the window fired exactly 20 s before
\* the deadline and the loop has returned from the finalize path.
C9_Witness ==
    /\ agPc = "done" /\ agCheck.fin /\ agCheck.rem = 20 /\ agI > 0
    /\ agFinalCompletions = 1

\* C10: the budget given to the finalize completion never exceeds the
\* remaining time minus one second.
C10_BudgetBelowRemainingMinus1 ==
    (agFinal.taken /\ agFinal.budget # NoBudget) => agFinal.budget <= agFinal.rem - 1

\* C10 (amended): the budget is 8 s when at least 8 s remain, the remaining
\* time minus 1 s when more than 2 s and less than 8 s remain, and absent
\* when 2 s or less remain; a budget never exceeds 8 s or the remaining time.
C10_BudgetWithinRemaining ==
    agFinal.taken =>
        /\ agFinal.rem >= 8 => agFinal.budget = 8
        /\ (agFinal.rem > 2 /\ agFinal.rem < 8) => agFinal.budget = agFinal.rem - 1
        /\ agFinal.rem <= 2 => agFinal.budget = NoBudget
        /\ agFinal.budget # NoBudget => (agFinal.budget <= 8 /\ agFinal.budget <= agFinal.rem)
        /\ agFinal.limit <= agFinal.rem

\* C10 witness: the finalize completion got 8 s with exactly 8 s remaining.
C10_Witness == agFinal.taken /\ agFinal.rem = 8 /\ agFinal.budget = 8 /\ agPc = "done"

\* The output consists of white space only.
OnlyWhitespace(out) == \A i \in 1..Len(out) : IsSpace(out[i])

\* C11: a finished task is FAILED/timeout, FAILED/canceled or
\* FAILED/run_error by its error, UNKNOWN/empty_output for no error and a
\* white-space-only output, and NOERROR with no error code otherwise.
C11_Classification ==
    cls.pc = "classified" =>
        LET got == <<cls.status, cls.code>> IN
        /\ cls.err = "DeadlineExceeded" => got = <<"FAILED", "timeout">>
        /\ cls.err = "Canceled" => got = <<"FAILED", "canceled">>
        /\ cls.err = "other" => got = <<"FAILED", "run_error">>
        /\ (cls.err = "nil" /\ OnlyWhitespace(cls.out)) => got = <<"UNKNOWN", "empty_output">>
        /\ (cls.err = "nil" /\ ~OnlyWhitespace(cls.out)) => got = <<"NOERROR", "">>
        /\ got \in {<<"FAILED", "timeout">>, <<"FAILED", "canceled">>, <<"FAILED", "run_error">>,
                    <<"UNKNOWN", "empty_output">>, <<"NOERROR", "">>}

\* C11 witness: a canceled run that produced text is classified FAILED/canceled.
C11_Witness ==
    /\ cls.pc = "classified" /\ cls.err = "Canceled" /\ cls.out = <<" ", "a">>
    /\ cls.status = "FAILED" /\ cls.code = "canceled"

C13_CancelReturnsCanceled ==
    (agPc = "done" /\ agCanceled /\ (agHasDeadline => agRemaining > 0)) =>
        /\ agResult.out = Progress(agProgress)
        /\ agResult.err = "context canceled"
        /\ ClassifyTask(RunErrOf(agResult.err), <<"a">>) =
              [status |-> "FAILED", code |-> "canceled"]

\* C14: while WaitIfPaused waits, nothing is started; it returns nil only on
\* reading the flag cleared, which happens at the first timer expiry after
\* the flag was cleared (so at most one 200 ms poll passes with the flag
\* clear), and then the loop proceeds; it returns the context's error only
\* when the context is canceled, and then the loop returns without starting
\* anything.
C14_CooperativePause ==
    pz.pc # "off" =>
        /\ pz.pc \in {"is_paused", "select", "nil", "err"} => pz.started = "none"
        /\ pz.pc = "select" => pz.sinceClear = 0
        /\ pz.sinceClear <= 1
        /\ pz.pc = "nil" => ~pz.paused
        /\ pz.pc = "err" => pz.canceled
        /\ pz.started # "none" => (pz.pc = "running" /\ ~pz.paused /\ pz.exit = "none")
        /\ pz.exit = "canceled" => (pz.canceled /\ pz.started = "none")

\* C14 witness: paused between two tool calls, resumed during a poll, and the
\* tool call started after that poll.
C14_Witness ==
    /\ pz.pc = "running" /\ pz.site = "gap" /\ pz.started = "tool"
    /\ pz.polls >= 1 /\ pz.sinceClear = 1

RetryableResponses == {TransportError, 408, 429, 500, 502, 503, 504}

\* C15: at most 7 attempts are made; a wait for a further attempt follows
\* only a transport error or one of the statuses 408, 429, 500, 502, 503,
\* 504; a 200 ends the call with success; any other status ends it after
\* that attempt with an API error; the 7th failure is returned.
C15_BoundedRetry ==
    rt.pc # "off" =>
        /\ rt.issued <= maxRetryAttempts
        /\ rt.attempt \in 1..maxRetryAttempts
        /\ rt.pc = "wait" => (rt.last.status \in RetryableResponses /\ rt.issued = rt.attempt)
        /\ (rt.pc = "issue" /\ rt.attempt > 1) => rt.last.status \in RetryableResponses
        /\ (rt.pc = "done" /\ rt.result # "canceled") =>
              /\ rt.issued = rt.attempt
              /\ rt.result = "ok" <=> rt.last.status = 200
              /\ rt.result = "api_error" <=> rt.last.status \notin {200, TransportError}
              /\ rt.last.status \in RetryableResponses => rt.attempt = maxRetryAttempts

\* C15 witness: the 7th attempt failed with 503 and that failure is returned.
C15_Witness ==
    /\ rt.pc = "done" /\ rt.issued = 7 /\ rt.last.status = 503
    /\ rt.result = "api_error"

\* C16: the wait after failed attempt n is 2, 4, 8, 8, 8, 8 seconds (no wait
\* follows the 7th), unless the response has a Retry-After header of integer
\* seconds or an HTTP date, and then it is that delay; no wait exceeds 8 s.
C16_Backoff ==
    rt.pc = "wait" =>
        /\ rt.delay <= 8
        /\ rt.last.retryAfter.kind \in {"seconds", "date"} =>
              rt.delay = Min(rt.last.retryAfter.v, 8)
        /\ rt.last.retryAfter.kind \in {"none", "bad"} =>
              rt.delay = <<2, 4, 8, 8, 8, 8, 8>>[rt.attempt]

\* C16 witness: a computed wait that the clamp cut down.
C16_Witness ==
    /\ rt.pc = "wait" /\ rt.attempt = 4 /\ rt.delay = 8
    /\ rt.last.retryAfter.kind = "none"

\* C17: once the context is canceled no request is sent and no second of
\* back-off is waited; the call returns the context's error.
C17_CancelAbortsRetry ==
    (rt.pc # "off" /\ rt.canceled) =>
        /\ rt.issued = rt.atCancel.issued
        /\ rt.remaining = rt.atCancel.remaining
        /\ rt.pc = "done" => rt.result = "canceled"

\* C17 witness: canceled in the middle of a wait, returned with seconds left.
C17_Witness ==
    /\ rt.pc = "done" /\ rt.result = "canceled"
    /\ rt.remaining > 0 /\ rt.remaining < rt.delay

\* Arrival numbers of the fragments of the stream that carry a name (args).
SentTokens(field) ==
    {Token(n, i - 1) : n \in 1..Len(st.chunks), i \in 1..2} \cap
    {t \in 1..(2 * MaxChunks) :
        \E n \in 1..Len(st.chunks) : \E i \in 1..Len(st.chunks[n]) :
            t = Token(n, i - 1) /\ st.chunks[n][i][field]}

Increasing(seq) == \A p, q \in 1..Len(seq) : p < q => seq[p] < seq[q]

\* C18: at end of stream every name fragment and every arguments fragment
\* received is part of exactly one listed tool call, each call's name and
\* arguments hold their fragments in arrival order, and no two listed calls
\* carry the same ID.
C18_StreamAssembly ==
    st.pc = "done" =>
        LET tcs == st.ToolCalls IN
        /\ \A t \in SentTokens("hasName") :
              Cardinality({p \in 1..Len(tcs) : \E q \in 1..Len(tcs[p].name) : tcs[p].name[q] = t}) = 1
        /\ \A t \in SentTokens("hasArgs") :
              Cardinality({p \in 1..Len(tcs) : \E q \in 1..Len(tcs[p].args) : tcs[p].args[q] = t}) = 1
        /\ \A p \in 1..Len(tcs) : Increasing(tcs[p].name) /\ Increasing(tcs[p].args)
        /\ \A p, q \in 1..Len(tcs) : (p # q /\ tcs[p].ID # "") => tcs[p].ID # tcs[q].ID

C21_ScrubWithin30s ==
    ms.pc = "open" =>
        \A id \in TaskIDs :
            ms.tasks[id].present => ms.now - ms.tasks[id].ExpiresAt <= scrubInterval

InEngine(t) == cc[t].pc \in {"pre_done", "applied", "verified", "rollback"}

\* C23: the engine calls of two tasks on one worktree never overlap, and when
\* both have returned, the change of a call that reported success is in the
\* worktree (no rollback of the other call has discarded it).
C23_CallsSerialized ==
    cc # [pc |-> "off"] =>
        /\ ~(InEngine(1) /\ InEngine(2))
        /\ (\A t \in Tasks : cc[t].pc = "done") =>
              \A t \in Tasks : cc[t].err = "none" => wt[FileOf(t)] = cc[t].new

\* C23, the consequence alone: a successful call's change survives.
SuccessfulChangeKept ==
    (cc # [pc |-> "off"] /\ \A t \in Tasks : cc[t].pc = "done") =>
        \A t \in Tasks : cc[t].err = "none" => wt[FileOf(t)] = cc[t].new

\* C24: with the flag off, the tools offered to a model (root or subagent) do
\* not contain subagent_factory, and a subagent_factory call returns an error
\* and starts no batch.
C24_ExperimentalGate ==
    [][/\ (xg'.pc = "offered" /\ ~xg'.offeredWith) => "subagent_factory" \notin xg'.offered
       /\ (xg.pc = "offered" /\ xg'.pc = "idle" /\ ~xg.experimental) =>
             (xg'.started = xg.started /\ xg'.result \in {xg.result, "experimental_off"})]_vars

\* C24, execution alone: with the flag off a call starts no batch.
ExecutionGated ==
    [][(xg.pc = "offered" /\ xg'.pc = "idle" /\ ~xg.experimental) =>
          (xg'.started = xg.started /\ xg'.result \in {xg.result, "experimental_off"})]_vars

\* C25: in the batch of A (text), B (completion outlasts the timeout) and C
\* (empty string) run with max_concurrency=2 and timeout_sec=1, the report has
\* exactly A under NoError, B under Failed with code timeout and C under
\* Unknown with code empty_output.
C25_ThreeTaskReport ==
    (sc.pc = "reported" /\ sc.timeoutSec = 1) =>
        /\ sc.noError = {"A"}
        /\ sc.failed = {"B"} /\ sc.task["B"].code = "timeout"
        /\ sc.unknown = {"C"} /\ sc.task["C"].code = "empty_output"

\* With the default timeout the first iteration is outside the finalize
\* window and the report is the one described.
ReportOutsideFinalizeWindow ==
    (sc.pc = "reported" /\ sc.timeoutSec = defaultTimeoutSec) =>
        /\ sc.noError = {"A"}
        /\ sc.failed = {"B"} /\ sc.task["B"].code = "timeout"
        /\ sc.unknown = {"C"} /\ sc.task["C"].code = "empty_output"

\* The requested value clamped into [1, max], and the default when omitted.
ClampedInto(v, def, max) ==
    IF ~v.set THEN def
    ELSE IF v.val < 1 THEN 1
    ELSE IF v.val > max THEN max
    ELSE v.val

\* C26 as stated: the effective options are the requested values clamped
\* into [1, 200], [1, 3600] and [1, 86400] (below 1 becomes 1, above the
\* maximum becomes the maximum); omitted options take 3, 600 and 600.
C26_ClampedOptionsOriginal ==
    fo.pc = "effective" =>
        /\ fo.effective.maxConcurrency = ClampedInto(fo.requested.maxConcurrency, 3, 200)
        /\ fo.effective.timeoutSec = ClampedInto(fo.requested.timeoutSec, 600, 3600)
        /\ fo.effective.ttlSeconds = ClampedInto(fo.requested.ttlSeconds, 600, 86400)

\* The requested value with the default for an omitted or non-positive
\* value, and the maximum for a value above it.
DefaultedInto(v, def, max) ==
    IF ~v.set \/ v.val < 1 THEN def
    ELSE IF v.val > max THEN max
    ELSE v.val

\* C26 (amended): the effective options always lie in [1, 200], [1, 3600] and
\* [1, 86400]; a requested value inside the range is kept, a value above the
\* maximum becomes the maximum, and an omitted option or a requested value
\* below 1 takes the default 3, 600 or 600.
C26_ClampedOptions ==
    fo.pc = "effective" =>
        /\ fo.effective.maxConcurrency \in 1..200
        /\ fo.effective.timeoutSec \in 1..3600
        /\ fo.effective.ttlSeconds \in 1..86400
        /\ fo.effective.maxConcurrency = DefaultedInto(fo.requested.maxConcurrency, 3, 200)
        /\ fo.effective.timeoutSec = DefaultedInto(fo.requested.timeoutSec, 600, 3600)
        /\ fo.effective.ttlSeconds = DefaultedInto(fo.requested.ttlSeconds, 600, 86400)

C26_Witness ==
    /\ fo.pc = "effective"
    /\ fo.requested.maxConcurrency = [set |-> TRUE, val |-> 0]
    /\ fo.requested.timeoutSec = [set |-> TRUE, val |-> 3601]
    /\ ~fo.requested.ttlSeconds.set
    /\ fo.effective = [maxConcurrency |-> 3, timeoutSec |-> 3600, ttlSeconds |-> 600]

\* The input with every "\r\n" read as "\n": no "\r" is followed by "\n", and
\* putting "\r" back before the line ends that lost one gives the input.
RECURSIVE Normalized(_)
Normalized(str) ==
    IF str = <<>> THEN <<>>
    ELSE IF HasPrefix(str, <<"\r", "\n">>) THEN Normalized(Tail(str))
    ELSE <<Head(str)>> \o Normalized(Tail(str))

RECURSIVE Join(_, _)
Join(parts, sep) ==
    IF Len(parts) = 1 THEN parts[1] ELSE parts[1] \o sep \o Join(Tail(parts), sep)

Contains(str, sep) == \E i \in 1..Len(str) : HasPrefix(SubSeq(str, i, Len(str)), sep)

\* The separator used when no regular expression is given.
UsedSymbol == IF TrimSpace(sp.splitSymbol) = <<>> THEN DefaultSplitSymbol ELSE TrimSpace(sp.splitSymbol)

\* The tasks are the pieces that are not blank, trimmed, in their order.
TasksOfPieces(parts, tasks) ==
    LET kept == SelectSeq(parts, LAMBDA p : TrimSpace(p) # <<>>)
    IN  /\ Len(tasks) = Len(kept)
        /\ \A i \in 1..Len(kept) : tasks[i] = TrimSpace(kept[i])

\* C27: splitTasks returns, in input order, the trimmed non-empty pieces of
\* the CRLF-normalized input split on split_regex when one is given (an
\* invalid one is an error) and on the split symbol otherwise; when no piece
\* is non-empty but the trimmed input is, the trimmed input is the single
\* task; no returned task is empty.
C27_SplitTasks ==
    sp.pc = "returned" =>
        LET raw == Normalized(sp.megaPrompt)
            regex == TrimSpace(sp.splitRegex)
        IN  /\ (sp.err # "nil") = (regex = <<"(">>)
            /\ sp.err # "nil" => sp.tasks = <<>>
            /\ \A i \in 1..Len(sp.tasks) : sp.tasks[i] # <<>> /\ sp.tasks[i] = TrimSpace(sp.tasks[i])
            /\ sp.err = "nil" =>
                /\ sp.parts # <<>>
                /\ regex = <<>> =>
                       /\ Join(sp.parts, UsedSymbol) = raw
                       /\ \A i \in 1..Len(sp.parts) : ~Contains(sp.parts[i], UsedSymbol)
                /\ regex # <<>> =>
                       /\ \A i \in 1..Len(sp.parts) : ~Contains(sp.parts[i], <<"-">>)
                       /\ SelectSeq(Concat(sp.parts), LAMBDA c : c # "-") = SelectSeq(raw, LAMBDA c : c # "-")
                       /\ regex = <<"-">> => Join(sp.parts, <<"-">>) = raw
                /\ IF \E i \in 1..Len(sp.parts) : TrimSpace(sp.parts[i]) # <<>>
                   THEN TasksOfPieces(sp.parts, sp.tasks)
                   ELSE IF TrimSpace(raw) # <<>> THEN sp.tasks = <<TrimSpace(raw)>>
                   ELSE sp.tasks = <<>>

\* The example of the specification: three one-letter tasks.
C27_Witness ==
    /\ sp.pc = "returned"
    /\ sp.megaPrompt = TestMegaPrompt
    /\ sp.splitSymbol = <<>> /\ sp.splitRegex = <<>>
    /\ sp.tasks = << <<"a">>, <<"b">>, <<"c">> >>

\* The operation lines of the patch that address target t with one of the
\* operators, in patch order, and the text they bring.
RECURSIVE TextOf(_, _, _)
TextOf(patch, t, operators) ==
    IF patch = <<>> THEN <<>>
    ELSE (IF Head(patch).target = t /\ Head(patch).operator \in operators
          THEN Head(patch).lines ELSE <<>>) \o TextOf(Tail(patch), t, operators)

Addresses(patch, t, operator) ==
    \E q \in 1..Len(patch) : patch[q].target = t /\ patch[q].operator = operator

\* The file the operations describe, line by line of the original.
RECURSIVE DescribedFrom(_, _, _)
DescribedFrom(patch, original, i) ==
    IF i > Len(original) THEN <<>>
    ELSE LET t == [kind |-> "line", n |-> i]
         IN  TextOf(patch, t, {"<<"})
             \o (IF Addresses(patch, t, "--") THEN <<>>
                 ELSE IF Addresses(patch, t, "++") THEN TextOf(patch, t, {"++"})
                 ELSE <<original[i]>>)
             \o TextOf(patch, t, {">>"})
             \o DescribedFrom(patch, original, i + 1)

Described(patch, original) ==
    TextOf(patch, [kind |-> "0", n |-> 0], {"++", "<<"})
    \o DescribedFrom(patch, original, 1)
    \o TextOf(patch, [kind |-> "00", n |-> 0], {"++", ">>"})

\* Patches of operations the description covers: every target is addressed
\* by one line only, line targets exist in the file, "0" comes with ++ or <<
\* and "00" with ++ or >>.
Covered(patch, original) ==
    /\ \A p, q \in 1..Len(patch) : patch[p].target = patch[q].target => p = q
    /\ \A q \in 1..Len(patch) :
        /\ patch[q].target.kind = "line" => patch[q].target.n <= Len(original)
        /\ patch[q].target.kind = "0" => patch[q].operator \in {"++", "<<"}
        /\ patch[q].target.kind = "00" => patch[q].operator \in {"++", ">>"}

\* C28: patch_file applies every operation relative to the line numbers of
\* the file at the start of the call: N-- removes line N, N++ replaces it,
\* N<< inserts directly before it and N>> directly after it, 0++/0<< put
\* text at the start and 00++/00>> at the end; all other lines keep their
\* content and relative order.
C28_PatchByOriginalLines ==
    (pf.pc = "written" /\ Covered(pf.patch, pf.original)) =>
        pf.written = Described(pf.patch, pf.original)

\* Without N<< on a line of the file the description holds.
DescribedWithoutInsertBefore ==
    (/\ pf.pc = "written" /\ Covered(pf.patch, pf.original)
     /\ \A q \in 1..Len(pf.patch) :
            ~(pf.patch[q].target.kind = "line" /\ pf.patch[q].operator = "<<")) =>
        pf.written = Described(pf.patch, pf.original)

\* N<< on a line of the file changes nothing.
InsertBeforeIgnored ==
    (/\ pf.pc = "written" /\ Len(pf.patch) = 1
     /\ pf.patch[1].target.kind = "line" /\ pf.patch[1].operator = "<<") =>
        pf.written = pf.original

\* d is a descendant of a in the tree the call found.
RECURSIVE DescendantOf(_, _, _)
DescendantOf(d, a, f) ==
    IF f[d] = 0 THEN FALSE ELSE f[d] = a \/ DescendantOf(f[d], a, f)

SignalsOf(sig) == SelectSeq(sg.signals, LAMBDA m : m.sig = sig)

NonForced == sg.pid > 0 /\ ~UnknownSignal(sg.signal) /\ ~sg.force /\ sg.signal # "KILL"

\* C29: a non-forced signal_tree call signals every descendant before its
\* ancestor and the root last; with graceful_seconds > 0, if any part of the
\* tree still exists when the deadline passes KILL is sent to the whole tree,
\* and if the tree is gone before the deadline the call returns success
\* without sending KILL.
C29_GracefulThenKill ==
    (sg.pc = "returned" /\ NonForced) =>
        /\ sg.result = "ok"
        /\ sg.grace > 0 =>
            \/ /\ SignalsOf("KILL") = <<>>
               /\ sg.alive \subseteq sg.dying
            \/ /\ sg.atDeadline # {}
               /\ \A c \in sg.atDeadline : \E i \in 1..Len(sg.signals) :
                      sg.signals[i] = [pid |-> c, sig |-> "KILL"]

\* The order of the first round: descendants before ancestors, the root last.
GracefulRoundBottomUp ==
    (sg.pc \in {"waiting", "returned"} /\ sg.pid > 0 /\ sg.result # "error" /\ sg.phase = "graceful") =>
        LET sigs == sg.signals
        IN  /\ {sigs[i].pid : i \in 1..Len(sigs)} = sg.tree
            /\ sigs[Len(sigs)].pid = sg.pid
            /\ \A i, j \in 1..Len(sigs) :
                   DescendantOf(sigs[i].pid, sigs[j].pid, sg.parentAtCall) => i < j

\* C30: a call with an unknown signal name or a non-positive PID returns an
\* error and sends no signal, whatever force and graceful_seconds are.
C30_InvalidArgsNoSignal ==
    (sg.pc # "called" /\ (sg.pid <= 0 \/ UnknownSignal(IF sg.signal = "" THEN "TERM" ELSE sg.signal))) =>
        /\ sg.pc = "returned" /\ sg.result = "error"
        /\ sg.signals = <<>>

\* Without force the arguments are checked before any signal.
InvalidArgsNoSignalUnforced ==
    (sg.pc # "called" /\ ~sg.force
        /\ (sg.pid <= 0 \/ UnknownSignal(IF sg.signal = "" THEN "TERM" ELSE sg.signal))) =>
        /\ sg.pc = "returned" /\ sg.result = "error"
        /\ sg.signals = <<>>

\* A non-positive PID is refused with or without force.
InvalidPidNoSignal ==
    (sg.pc # "called" /\ sg.pid <= 0) =>
        sg.pc = "returned" /\ sg.result = "error" /\ sg.signals = <<>>

\* The input is one the call rejects: blank mega prompt, a split regex that
\* does not compile, or no model name after the fallback to the default.
RejectedInput(in) ==
    \/ \A i \in 1..Len(in.megaPrompt) : in.megaPrompt[i] \in {" ", "\n", "\r", "\t"}
    \/ in.splitRegex = <<"(">>
    \/ (in.model \in {<<>>, <<" ">>} /\ in.defaultModel = <<>>)

\* C31: a RunFactory call rejected for its input returns an error and has no
\* side effect: no worker spawned, no output directory or file created, the
\* manager's task and report stores unchanged.
C31_RejectionHasNoSideEffect ==
    /\ (rv.pc # "off" /\ rv.pc # "called" /\ RejectedInput(rv.in)) =>
           rv.pc = "returned" /\ rv.err # "nil" /\ rv.now = rv.before
    /\ (rv.pc = "returned" /\ rv.err # "nil") => rv.now.spawned = 0 /\ rv.now.files = {}

C31_Witness ==
    /\ rv.pc = "returned" /\ rv.err = "model is empty"
    /\ TrimSpace(rv.in.megaPrompt) # <<>>
    /\ rv.before.tasks # {}

\* Every tool message of v answers a tool call of an earlier assistant message
\* of v with no user message between the two.
ToolsMatchedInTurn(v) ==
    \A i \in DOMAIN v :
        v[i].role = "tool" =>
            \E j \in 1..(i - 1) :
                /\ v[j].role = "assistant"
                /\ v[i].ToolCallID \in Range(v[j].ToolCalls)
                /\ \A u \in (j + 1)..(i - 1) : v[u].role # "user"

\* C32: in the message sequence sent to the remote service a tool message is
\* kept only if its ToolCallID matches a tool call of an earlier assistant
\* message of the same turn window (no user message in between); a tool
\* message whose only matching call belongs to an earlier turn is filtered out.
C32_ToolsWithinTurnWindow ==
    lastView.made => ToolsMatchedInTurn(lastView.clean)

\* The sequences the root loop sends keep tool messages within their turn.
SentWithinTurnWindow == ToolsMatchedInTurn(sent)

\* C33: when an apply_unified_diff_patch call fails because the patch cannot
\* be applied, the tool message appended for it contains the hint to re-read
\* the target files and use patch_file.
C33_FailedDiffHintsPatchFile ==
    \A i \in 1..Len(ud.calls) :
        (ud.calls[i].kind = "complete" /\ ud.calls[i].err = "apply") =>
            \E j \in 1..Len(ud.messages[i]) : ud.messages[i][j] = PatchFileHint

\* Every call gets one tool message, and a failed one starts with "Error: ".
FailedDiffReportsError ==
    /\ Len(ud.messages) = Len(ud.calls)
    /\ \A i \in 1..Len(ud.calls) :
        ud.calls[i].err # "none" => ud.messages[i][1] = "Error: "

\* C34: cancellation is checked between tool calls: once the context of the
\* loop is canceled, the loop starts no further tool call of the current
\* assistant message and no further completion.
C34_CancelStopsToolCalls ==
    [][canceled =>
          /\ (pc' = "exec_tool" => pc = "exec_tool")
          /\ (pc' = "completing" => pc = "completing")]_vars

\* Once the context is canceled the root loop asks for no further completion.
CancelStopsCompletions ==
    [][canceled => (pc' = "completing" => pc = "completing")]_vars

\* Canceled while paused, the root loop starts no further tool call.
CancelWhilePausedStopsToolCalls ==
    [][(canceled /\ paused /\ paused') => (pc' = "exec_tool" => pc = "exec_tool")]_vars

\* The stream carried one tool call the usual way: each chunk has one
\* fragment, the first names the ID "a", the following ones have no ID.
OneCallThenContinuations ==
    /\ Len(st.chunks) >= 2
    /\ \A n \in 1..Len(st.chunks) :
        /\ Len(st.chunks[n]) = 1
        /\ st.chunks[n][1].id = (IF n = 1 THEN "a" ELSE "")

\* The arrival numbers of the arguments fragments, in arrival order.
ArgsInOrder ==
    SelectSeq([n \in 1..Len(st.chunks) |-> Token(n, 0)],
              LAMBDA t : \E n \in 1..Len(st.chunks) : t = Token(n, 0) /\ st.chunks[n][1].hasArgs)

\* C35: a first fragment with the call's ID followed by fragments with an
\* empty ID at the same index gives exactly one tool call, with that ID and
\* the concatenation of all their argument fragments.
C35_ContinuationsJoinTheirCall ==
    (st.pc = "done" /\ OneCallThenContinuations) =>
        /\ Len(st.ToolCalls) = 1
        /\ st.ToolCalls[1].ID = "a"
        /\ st.ToolCalls[1].args = ArgsInOrder

\* C36: the returned message never holds the same tool call twice: the
\* emitted calls have pairwise distinct IDs and no fragment's arguments are
\* lost, also when a placeholder key is migrated to an ID that has an entry.
C36_NoDuplicateNoLoss ==
    st.pc = "done" =>
        /\ \A p, q \in 1..Len(st.ToolCalls) :
              (p < q /\ st.ToolCalls[p].ID # "") => st.ToolCalls[p].ID # st.ToolCalls[q].ID
        /\ \A t \in SentTokens("hasArgs") :
              \E p \in 1..Len(st.ToolCalls) : t \in Range(st.ToolCalls[p].args)

\* Streams in which every fragment names its ID are reassembled per ID.
NamedFragmentsJoin ==
    (st.pc = "done" /\ \A n \in 1..Len(st.chunks) : \A i \in 1..Len(st.chunks[n]) : st.chunks[n][i].id # "") =>
        /\ \A p, q \in 1..Len(st.ToolCalls) : p < q => st.ToolCalls[p].ID # st.ToolCalls[q].ID
        /\ \A t \in SentTokens("hasArgs") :
              \E p \in 1..Len(st.ToolCalls) : t \in Range(st.ToolCalls[p].args)

\* C37: consumption is exactly-once under concurrency: of the concurrent
\* GetTaskContextSummary(id, consume=true) calls for one stored task at most
\* one returns the summary, the others return "task context not found".
\* (Every task id is stored once, so two returned calls with the summary of
\* one id have consumed the same entry.)
C37_ConsumedOnce ==
    \A c, d \in Callers :
        (/\ c # d
         /\ ms.calls[c].pc = "returned" /\ ms.calls[d].pc = "returned"
         /\ ms.calls[c].consume /\ ms.calls[d].consume
         /\ ms.calls[c].id = ms.calls[d].id) =>
            ~(ms.calls[c].result = "summary" /\ ms.calls[d].result = "summary")

\* runFactoryWithDepth number b has returned a report that counts one result
\* for each worker it spawned.
Returned(b) ==
    /\ b <= Len(batches)
    /\ batches[b].phase = "reported"
    /\ batches[b].report.total = batches[b].next
    /\ \A w \in WorkersOf(b) : workers[w].phase = "done"

\* C38: RunFactory always returns: every started runFactoryWithDepth, the
\* root's and the nested ones, eventually returns its report with one result
\* per spawned worker, and every spawned worker eventually has sent its
\* result, whatever the nesting and whenever the context is canceled.
C38_RunFactoryReturns ==
    /\ \A b \in 1..MaxBatches : (b <= Len(batches)) ~> Returned(b)
    /\ \A w \in 1..MaxWorkers :
          (w <= Len(workers)) ~> (w <= Len(workers) /\ workers[w].phase = "done")

\* The root batch has returned after the context was canceled during its
\* spawn loop, and one of its workers has run a nested batch, which spawned
\* a worker and returned, while it held a slot of the root batch.
C38_Witness ==
    /\ Returned(1)
    /\ batches[1].broke
    /\ \E b \in 2..Len(batches) : Returned(b) /\ batches[b].report.total >= 1

\* C39: two different tasks, of the same batch, of different batches with the
\* same task-list name, or of nested batches, never receive the same TaskID,
\* and storing a task's context never overwrites another task's context
\* (no context expires or is consumed here).
C39_TaskIDsUnique ==
    /\ \A t, u \in TiTasks : t # u => TaskIDOf(t[1], t[2]) # TaskIDOf(u[1], u[2])
    /\ ti.overwritten = {}

\* The tasks of one batch have different TaskIDs.
TaskIDsUniqueInBatch ==
    \A t, u \in TiTasks : (t # u /\ t[1] = u[1]) => TaskIDOf(t[1], t[2]) # TaskIDOf(u[1], u[2])

\* Batches whose task-list names differ share no TaskID.
TaskIDsUniqueAcrossNames ==
    \A t, u \in TiTasks :
        ti.batches[t[1]].taskListName # ti.batches[u[1]].taskListName =>
            TaskIDOf(t[1], t[2]) # TaskIDOf(u[1], u[2])

====
